---- MODULE Spec2Model ----
(***************************************************************************)
(* Model of the writer side of the HTTP/2 connection engine of rust-http2: *)
(* the write buffer, the HEADERS/CONTINUATION fragmentation sink, the     *)
(* DATA chunking, the buffering pass over the stream map, and the client   *)
(* handling of inbound HEADERS with the events delivered to the stream     *)
(* handler.                                                                *)
(*                                                                         *)
(* Two levels of detail are used.  SpecCodec works on bytes: the write     *)
(* buffer is a sequence of octets and frames are recovered by parsing it.  *)
(* Spec works on frames: the write buffer is the sequence of frames queued *)
(* in it, each with its serialized length, so that the real watermark and  *)
(* window sizes can be used.                                               *)
(* SpecRead puts the reader half of a client connection next to the writer *)
(* to follow the events given to the stream handlers.                      *)
(* SpecStage follows the reader frame by frame (message stage and          *)
(* content-length), SpecNet one stream's sync queue with the window credit *)
(* its consumer returns, and SpecGoaway a connection that sends GOAWAY.    *)
(* SpecTask (with fairness: SpecTaskLive) is the client connection task    *)
(* from the handshake on, with its command channel and the handle the      *)
(* application holds.  SpecFrame parses DATA, HEADERS and RST_STREAM       *)
(* frames from octets and serializes them again.  SpecCmd takes the        *)
(* writer's commands one at a time and keeps the connection before and     *)
(* after each.  SpecBuf is the write buffer alone, SpecWire the octets the  *)
(* writer queues for blocks of headers, data and GOAWAY, SpecFlushLive the *)
(* termination of poll_flush, and SpecLegacy the write loop of the older   *)
(* client with its body pumps and the reader sharing the stream map.       *)
(***************************************************************************)
EXTENDS Integers, Sequences, FiniteSets, TLC

VARIABLES
    \* ---- SpecCodec: one HeadersMultiFrame::serialize_into, one write_part_data
    buf,            \* EncodeBufForHeadersMultiFrame, its builder included
    cpc,            \* position in serialize_into: "init", "encoding", "done"
    sink,           \* every byte the HPACK encoder handed to write_all, in order
    block_start,    \* unread bytes in the builder when serialize_into began
    ncalls,         \* write_all calls made by the encoder so far
    dres,           \* input and result of the last write_part_data call
    \* ---- Spec: the connection
    conn,           \* Conn: stream map, windows, next stream id, queued_write
    pc,             \* position of the connection task inside poll_write
    pass,           \* what the last buffer_outg_conn did (history)
    hist,           \* per stream: parts enqueued, handler events, bypass counts; ids given (history)
    budget,         \* commands and inbound frames still to come
    rx,             \* the last inbound stream frame and the stream before it (history)
    \* ---- SpecNet: one stream's sync queue and its StreamFromNetwork
    net,            \* the channel, the receiver, the in-window credit, what was polled
    \* ---- SpecGoaway, SpecTask, SpecCmd: the connection task; SpecLegacy: the older client
    task,           \* handshake, command channel, what the loop's steps returned last
    \* ---- SpecFrame: one raw frame through from_raw and serialize_into;
    \* ---- SpecBuf: one WriteBuffer; SpecWire: the writer's queued octets
    wire            \* the raw bytes, the parser applied, its result, the bytes written back

codec_vars == <<buf, cpc, sink, block_start, ncalls, dres>>

conn_vars == <<conn, pc, pass, hist, budget>>

obs_vars == <<rx, net, task, wire>>

vars == <<buf, cpc, sink, block_start, ncalls, dres, conn, pc, pass, hist, budget, rx, net, task, wire>>

\* ---------------------------------------------------------------- bounds
MaxPrefix == 2      \* bytes already in the write buffer before a headers block
MaxFrame == 3       \* largest max_frame_size tried at byte level
MaxChunk == 4       \* largest single write_all call of the encoder
MaxWrites == 3      \* write_all calls per headers block
MaxData == 7        \* largest data part tried at byte level
LongPrefix == 10    \* a longer buffer content, its first byte already consumed
BigChunk == 19      \* a write_all call larger than header, LongPrefix - 1 and header
BigFrame == 19      \* a max_frame_size that takes such a call in one frame
MaxReserve == 100   \* largest EncodeBuf::reserve request of the encoder

\* ------------------------------------------------------- program constants
FRAME_HEADER_LEN == 9
DATA_FRAME_TYPE == 0
HEADERS_FRAME_TYPE == 1
CONTINUATION_FRAME_TYPE == 9
FlagEndStream == 1
FlagEndHeaders == 4

Min(a, b) == IF a < b THEN a ELSE b

\* Flags<F>::is_set / with on the u8 representation
is_set(flags, bit) == (flags \div bit) % 2 = 1
with(flags, bit) == IF is_set(flags, bit) THEN flags ELSE flags + bit

\* a failed assert!, expect or slice index: the calling task is aborted
Panic == [k |-> "Panic"]

\* ------------------------------------------------------------ write buffer
\* WriteBufferTailVec shares data and position with the WriteBuffer it borrows.
remaining(b) == Len(b.data) - b.position

\* bug variant: the position is reset but the consumed bytes are not drained
compact_undrained(b) == [data |-> b.data, position |-> 0]

compact(b) == [data |-> SubSeq(b.data, b.position + 1, Len(b.data)), position |-> 0]

\* data.reserve(additional) only changes the capacity
reserve(b, additional) == IF remaining(b) >= additional THEN b ELSE compact(b)

extend_from_slice(b, s) == [reserve(b, Len(s)) EXCEPT !.data = @ \o s]

\* the slice data[patch_pos..patch_pos + len] panics when it reaches past the
\* end of data, and then nothing is copied
patch_buf(b, pos, s) ==
    IF b.position + pos + Len(s) > Len(b.data)
    THEN [k |-> "Panic", data |-> b.data, position |-> b.position]
    ELSE [b EXCEPT !.data = [i \in 1..Len(b.data) |->
            IF i > b.position + pos /\ i <= b.position + pos + Len(s)
            THEN s[i - (b.position + pos)]
            ELSE b.data[i]]]

\* the unread bytes: Buf::bytes
bytes(b) == SubSeq(b.data, b.position + 1, Len(b.data))

\* 9 octet frame header: 24 bit length, type, flags, reserved bit + 31 bit id
pack_header(payload_len, frame_type, flags, stream_id) ==
    << (payload_len \div 65536) % 256, (payload_len \div 256) % 256, payload_len % 256,
       frame_type, flags,
       (stream_id \div 16777216) % 256, (stream_id \div 65536) % 256,
       (stream_id \div 256) % 256, stream_id % 256 >>

unpack_header(h) ==
    [payload_len |-> h[1] * 65536 + h[2] * 256 + h[3],
     frame_type |-> h[4],
     flags |-> h[5],
     stream_id |-> ((h[6] % 128) * 16777216) + h[7] * 65536 + h[8] * 256 + h[9]]

RECURSIVE unpack_frames(_)
unpack_frames(raw) ==
    IF Len(raw) < FRAME_HEADER_LEN THEN <<>>
    ELSE LET h == unpack_header(SubSeq(raw, 1, FRAME_HEADER_LEN))
             end == Min(Len(raw), FRAME_HEADER_LEN + h.payload_len)
         IN <<[frame_type |-> h.frame_type, flags |-> h.flags, stream_id |-> h.stream_id,
               payload_len |-> h.payload_len,
               payload |-> SubSeq(raw, FRAME_HEADER_LEN + 1, end)]>>
            \o unpack_frames(SubSeq(raw, end + 1, Len(raw)))

\* ------------------------------------------- HEADERS / CONTINUATION sink
frame_type(t) == IF t = "Headers" THEN HEADERS_FRAME_TYPE ELSE CONTINUATION_FRAME_TYPE

make_flags_cont_keeps_header_flags(t, header_flags, last) ==
    IF last THEN with(header_flags, FlagEndHeaders) ELSE header_flags

make_flags(t, header_flags, last) ==
    IF is_set(header_flags, FlagEndHeaders) THEN Panic
    ELSE IF t = "Headers"
    THEN (IF last THEN with(header_flags, FlagEndHeaders) ELSE header_flags)
    ELSE (IF last THEN FlagEndHeaders ELSE 0)

\* bug variant: the offset of the open frame is taken from the start of data
open_frame_absolute_offset(e) ==
    [e EXCEPT !.current_frame_offset = Len(e.builder.data),
              !.builder = extend_from_slice(e.builder, pack_header(0, 0, 0, 0))]

open_frame(e) ==
    [e EXCEPT !.current_frame_offset = remaining(e.builder),
              !.builder = extend_from_slice(e.builder, pack_header(0, 0, 0, 0))]

finish_frame(e, last) ==
    LET frame_length == remaining(e.builder) - e.current_frame_offset
        length == frame_length - FRAME_HEADER_LEN
    IN [e EXCEPT !.builder = patch_buf(e.builder, e.current_frame_offset,
            pack_header(length, frame_type(e.current_frame_type),
                        make_flags(e.current_frame_type, e.flags, last), e.stream_id))]

rem_in_current_frame(e) ==
    LET current_frame_len == remaining(e.builder) - e.current_frame_offset
        current_frame_payload_len == current_frame_len - FRAME_HEADER_LEN
    IN e.max_frame_size - current_frame_payload_len

\* bug variant: a frame that became full is closed at once, bytes left or not
RECURSIVE write_all_eager(_, _)
write_all_eager(e, bs) ==
    LET copy_here == Min(Len(bs), rem_in_current_frame(e))
        e1 == [e EXCEPT !.builder = extend_from_slice(e.builder, SubSeq(bs, 1, copy_here))]
        rest == SubSeq(bs, copy_here + 1, Len(bs))
    IN IF rest = <<>> /\ rem_in_current_frame(e1) > 0 THEN e1
       ELSE LET e2 == [open_frame(finish_frame(e1, FALSE))
                          EXCEPT !.current_frame_type = "Continuation"]
            IN IF rest = <<>> THEN e2 ELSE write_all_eager(e2, rest)

\* bug variant: the slice for the next frame starts one byte late
RECURSIVE write_all_skip(_, _)
write_all_skip(e, bs) ==
    LET copy_here == Min(Len(bs), rem_in_current_frame(e))
        e1 == [e EXCEPT !.builder = extend_from_slice(e.builder, SubSeq(bs, 1, copy_here))]
        rest == SubSeq(bs, copy_here + 1, Len(bs))
    IN IF rest = <<>> THEN e1
       ELSE write_all_skip([open_frame(finish_frame(e1, FALSE))
                               EXCEPT !.current_frame_type = "Continuation"],
                           SubSeq(rest, 2, Len(rest)))

RECURSIVE write_all(_, _)
write_all(e, bs) ==
    LET copy_here == Min(Len(bs), rem_in_current_frame(e))
        e1 == [e EXCEPT !.builder = extend_from_slice(e.builder, SubSeq(bs, 1, copy_here))]
        rest == SubSeq(bs, copy_here + 1, Len(bs))
    IN IF rest = <<>> THEN e1
       ELSE write_all([open_frame(finish_frame(e1, FALSE))
                          EXCEPT !.current_frame_type = "Continuation"], rest)

\* ------------------------------------------------------- DATA chunking
\* Bytes is a reference counted slice: [id, from, to) of an underlying buffer
bytes_len(d) == d.to - d.from
slice(d, begin, end) == [id |-> d.id, from |-> d.from + begin, to |-> d.from + end]

DataFrame(stream_id, data, flags) ==
    [type |-> DATA_FRAME_TYPE, stream_id |-> stream_id, flags |-> flags, payload |-> data]

RECURSIVE write_part_data_loop(_, _, _, _, _, _)
write_part_data_loop(q, stream_id, data, end_stream, max_frame_size, pos) ==
    IF pos < bytes_len(data)
    THEN LET end == Min(bytes_len(data), pos + max_frame_size)
             end_stream_in_frame == (end = bytes_len(data) /\ end_stream)
             frame == DataFrame(stream_id, slice(data, pos, end),
                                IF end_stream_in_frame THEN FlagEndStream ELSE 0)
         IN write_part_data_loop(Append(q, frame), stream_id, data, end_stream,
                                 max_frame_size, end)
    ELSE q

\* bug variant: END_STREAM put on every frame of the part
RECURSIVE write_part_data_flag_all(_, _, _, _, _)
write_part_data_flag_all(q, stream_id, data, end_stream, max_frame_size) ==
    IF bytes_len(data) = 0 THEN (IF end_stream
                                 THEN Append(q, DataFrame(stream_id, data, FlagEndStream))
                                 ELSE q)
    ELSE LET end == Min(bytes_len(data), max_frame_size)
             frame == DataFrame(stream_id, slice(data, 0, end),
                                IF end_stream THEN FlagEndStream ELSE 0)
         IN IF end = bytes_len(data) THEN Append(q, frame)
            ELSE write_part_data_flag_all(Append(q, frame), stream_id,
                    slice(data, end, bytes_len(data)), end_stream, max_frame_size)

\* bug variant: an empty part that ends the stream is written as no frame
write_part_data_empty_end_skipped(q, stream_id, data, end_stream, max_frame_size) ==
    write_part_data_loop(q, stream_id, data, end_stream, max_frame_size, 0)

write_part_data(q, stream_id, data, end_stream, max_frame_size) ==
    IF end_stream /\ bytes_len(data) = 0
    THEN Append(q, DataFrame(stream_id, slice(data, 0, 0), FlagEndStream))
    ELSE write_part_data_loop(q, stream_id, data, end_stream, max_frame_size, 0)


\* ------------------------------------------- frame level HEADERS sink
\* The same sink with the builder seen as the frames written into it: the open
\* frame is the last one, its header still the placeholder open_frame wrote.
RST_STREAM_FRAME_TYPE == 3

open_frame_n(e) ==
    [e EXCEPT !.frames = Append(e.frames,
        [type |-> 0, stream_id |-> 0, flags |-> 0,
         payload |-> [id |-> e.block, from |-> e.written, to |-> e.written]])]

finish_frame_n(e, last) ==
    [e EXCEPT !.frames[Len(e.frames)] =
        [@ EXCEPT !.type = frame_type(e.current_frame_type),
                  !.flags = make_flags(e.current_frame_type, e.flags, last),
                  !.stream_id = e.stream_id]]

rem_in_current_frame_n(e) ==
    e.max_frame_size - bytes_len(e.frames[Len(e.frames)].payload)

RECURSIVE write_all_n(_, _)
write_all_n(e, n) ==
    LET copy_here == Min(n, rem_in_current_frame_n(e))
        e1 == [e EXCEPT !.frames[Len(e.frames)].payload.to = @ + copy_here,
                        !.written = @ + copy_here]
        rest == n - copy_here
    IN IF rest = 0 THEN e1
       ELSE write_all_n([open_frame_n(finish_frame_n(e1, FALSE))
                            EXCEPT !.current_frame_type = "Continuation"], rest)

\* hpack::Encoder::encode_into: the write_all calls it makes for this header list
RECURSIVE encode_into(_, _)
encode_into(writes, e) ==
    IF writes = <<>> THEN e ELSE encode_into(Tail(writes), write_all_n(e, Head(writes)))

\* bug variant: the CONTINUATION frames are left with the placeholder stream id
serialize_into_cont_unpatched(q, hmf) ==
    LET e0 == [flags |-> hmf.flags, stream_id |-> hmf.stream_id,
               current_frame_type |-> "Headers", max_frame_size |-> hmf.max_frame_size,
               block |-> hmf.headers.id, written |-> 0, frames |-> <<>>]
        e == finish_frame_n(encode_into(hmf.headers.writes, open_frame_n(e0)), TRUE)
    IN q \o [i \in 1..Len(e.frames) |->
                IF i = 1 THEN e.frames[i] ELSE [e.frames[i] EXCEPT !.stream_id = 0]]

\* HeadersMultiFrame::serialize_into, appending to the frames in the buffer
serialize_into(q, hmf) ==
    LET e0 == [flags |-> hmf.flags, stream_id |-> hmf.stream_id,
               current_frame_type |-> "Headers", max_frame_size |-> hmf.max_frame_size,
               block |-> hmf.headers.id, written |-> 0, frames |-> <<>>]
    IN IF is_set(hmf.flags, FlagEndHeaders) THEN Panic
       ELSE q \o finish_frame_n(encode_into(hmf.headers.writes, open_frame_n(e0)), TRUE).frames

\* ------------------------------------------------------------ the writer
WriteWatermark == 32768
DefaultInitialWindowSize == 65535
DefaultMaxFrameSize == 16384

frame_size(f) == FRAME_HEADER_LEN + bytes_len(f.payload)

RECURSIVE frames_size(_)
frames_size(fs) == IF fs = <<>> THEN 0 ELSE frame_size(Head(fs)) + frames_size(Tail(fs))

\* QueuedWrite: frames serialized into its buffer, bytes already written out
queued_bytes_len(qw) == frames_size(qw.frames) - qw.flushed

\* QueuedWrite::queue_not_goaway: q2 is the queue with the frame serialized at
\* its end; nothing is queued behind a GOAWAY
queue_not_goaway(qw, q2) ==
    IF qw.goaway_queued THEN [qw EXCEPT !.refused = @ + 1] ELSE [qw EXCEPT !.frames = q2]

write_part_headers(q, stream_id, headers, end_stream, max_frame_size) ==
    LET flags == IF end_stream THEN FlagEndStream ELSE 0
    IN serialize_into(q, [flags |-> flags, stream_id |-> stream_id, headers |-> headers,
                          max_frame_size |-> max_frame_size])

RstStreamFrame(stream_id, error_code) ==
    [type |-> RST_STREAM_FRAME_TYPE, stream_id |-> stream_id, flags |-> 0,
     payload |-> [id |-> 0, from |-> 0, to |-> 4], error_code |-> error_code]

write_part_rst(q, stream_id, error_code) == Append(q, RstStreamFrame(stream_id, error_code))

\* write_part_data hands every DATA frame of the part to queue_not_goaway
RECURSIVE queue_frames(_, _)
queue_frames(qw, fs) ==
    IF fs = <<>> THEN qw
    ELSE queue_frames(queue_not_goaway(qw, Append(qw.frames, Head(fs))), Tail(fs))

\* a Data part is queued frame by frame; a headers block and RST_STREAM are
\* one queue_not_goaway call each
write_part(c, stream_id, part) ==
    LET q == c.queued_write.frames
        m == c.peer_settings.max_frame_size
    IN [c EXCEPT !.queued_write =
          CASE part.k = "Data" ->
                  queue_frames(@, write_part_data(<<>>, stream_id, part.data,
                                                  part.end_stream, m))
            [] part.k = "Headers" ->
                  queue_not_goaway(@, write_part_headers(q, stream_id, part.headers,
                                                         part.end_stream, m))
            [] part.k = "Rst" ->
                  queue_not_goaway(@, write_part_rst(q, stream_id, part.error_code))]

has_write_buffer_capacity_always(c) == TRUE

\* bug variant: the watermark is taken twice as high
has_write_buffer_capacity_lax(c) == queued_bytes_len(c.queued_write) < 2 * WriteWatermark

has_write_buffer_capacity(c) == queued_bytes_len(c.queued_write) < WriteWatermark

\* ---- stream record and stream map
new_stream(out_window) ==
    [state |-> "Idle", outgoing |-> <<>>, outgoing_end |-> "None",
     out_window_size |-> out_window, peer_tx |-> FALSE,
     in_message_stage |-> "Initial", in_rem_content_length |-> -1]

is_closed_local(state) == state \in {"HalfClosedLocal", "Closed"}

close_local(state) ==
    CASE state \in {"Idle", "Open"} -> "HalfClosedLocal"
      [] state = "HalfClosedRemote" -> "Closed"
      [] OTHER -> state

close_remote(state) ==
    CASE state \in {"Idle", "Open"} -> "HalfClosedRemote"
      [] state = "HalfClosedLocal" -> "Closed"
      [] OTHER -> state

sent_headers(state) == IF state = "Idle" THEN "Open" ELSE state

close_outgoing(s, error_code) == [s EXCEPT !.outgoing_end = error_code]

push_back(s, content) == [s EXCEPT !.outgoing = Append(@, content)]

push_back_part(s, part) ==
    IF part.last THEN close_outgoing(push_back(s, part.content), "NoError")
    ELSE push_back(s, part.content)

NoCommand == [k |-> "None"]

\* HttpStreamCommon::pop_outg: the next part the stream may emit, if any
pop_outg(s, conn_out_window_size) ==
    IF s.outgoing = <<>>
    THEN IF s.outgoing_end # "None" /\ ~is_closed_local(s.state)
         THEN IF s.outgoing_end = "NoError"
              THEN [cmd |-> [k |-> "Data", data |-> [id |-> 0, from |-> 0, to |-> 0],
                             end_stream |-> TRUE],
                    stream |-> [s EXCEPT !.state = close_local(@)],
                    conn_out_window_size |-> conn_out_window_size]
              ELSE [cmd |-> [k |-> "Rst", error_code |-> s.outgoing_end],
                    stream |-> [s EXCEPT !.state = "Closed"],
                    conn_out_window_size |-> conn_out_window_size]
         ELSE [cmd |-> NoCommand, stream |-> s, conn_out_window_size |-> conn_out_window_size]
    ELSE IF Head(s.outgoing).k = "Headers"
    THEN LET rest == Tail(s.outgoing)
             last == s.outgoing_end = "NoError" /\ rest = <<>>
         IN [cmd |-> [k |-> "Headers", headers |-> Head(s.outgoing).headers,
                      end_stream |-> last],
             stream |-> [s EXCEPT !.outgoing = rest,
                                  !.state = IF last THEN close_local(sent_headers(@))
                                            ELSE sent_headers(@)],
             conn_out_window_size |-> conn_out_window_size]
    ELSE IF s.out_window_size <= 0 \/ conn_out_window_size <= 0
    THEN [cmd |-> NoCommand, stream |-> s, conn_out_window_size |-> conn_out_window_size]
    ELSE LET data == Head(s.outgoing).data
             max_window == Min(s.out_window_size, conn_out_window_size)
             truncate == bytes_len(data) > max_window
             now == IF truncate THEN slice(data, 0, max_window) ELSE data
             rest == IF truncate
                     THEN <<[k |-> "Data", data |-> slice(data, max_window, bytes_len(data))]>>
                          \o Tail(s.outgoing)
                     ELSE Tail(s.outgoing)
             last == s.outgoing_end = "NoError" /\ rest = <<>>
         IN [cmd |-> [k |-> "Data", data |-> now, end_stream |-> last],
             stream |-> [s EXCEPT !.outgoing = rest,
                                  !.out_window_size = @ - bytes_len(now),
                                  !.state = IF last THEN close_local(@) ELSE @],
             conn_out_window_size |-> conn_out_window_size - bytes_len(now)]

\* StreamMap::remove on a function
remove_stream(streams, stream_id) ==
    [id \in DOMAIN streams \ {stream_id} |-> streams[id]]

insert_stream(streams, stream_id, s) ==
    [id \in DOMAIN streams \cup {stream_id} |-> IF id = stream_id THEN s ELSE streams[id]]

\* HttpStreamRef::pop_outg_maybe_remove behind Conn::pop_outg_for_stream
pop_outg_for_stream(c, stream_id) ==
    LET popped(r, removed) ==
            [some |-> r.cmd # NoCommand,
             part |-> r.cmd,
             cont |-> ~removed,
             c |-> [c EXCEPT !.streams = IF removed THEN remove_stream(c.streams, stream_id)
                                         ELSE [c.streams EXCEPT ![stream_id] = r.stream],
                             !.out_window_size = r.conn_out_window_size]]
        maybe_remove(r) == popped(r, r.stream.state = "Closed")
    IN maybe_remove(pop_outg(c.streams[stream_id], c.out_window_size))

is_writable(s) ==
    /\ s.outgoing # <<>> \/ (s.outgoing_end # "None" /\ ~is_closed_local(s.state))
    /\ s.out_window_size # 0

RECURSIVE sorted(_)
sorted(ids) ==
    IF ids = {} THEN <<>>
    ELSE LET m == CHOOSE x \in ids : \A y \in ids : x <= y
         IN <<m>> \o sorted(ids \ {m})

writable_stream_ids(streams) == sorted({id \in DOMAIN streams : is_writable(streams[id])})

\* bug variant: the loop goes on with a stream after the pop that removed it
RECURSIVE drain_stream_after_removal(_, _, _)
drain_stream_after_removal(c, g0, stream_id) ==
    IF ~has_write_buffer_capacity(c) THEN [c |-> c, g |-> g0, returned |-> TRUE]
    ELSE IF stream_id \notin DOMAIN c.streams
    THEN [c |-> c, g |-> [g0 EXCEPT !.unwrap_failed = TRUE], returned |-> TRUE]
    ELSE LET g == [g0 EXCEPT !.reached = @ \cup {stream_id}]
             wrote(c2, cont) ==
                 LET g2 == [g EXCEPT
                              !.updated = TRUE,
                              !.at_pop = Append(@, queued_bytes_len(c.queued_write)),
                              !.last_part_bytes = queued_bytes_len(c2.queued_write)
                                                  - queued_bytes_len(c.queued_write),
                              !.served = @ \cup {stream_id}]
                 IN drain_stream_after_removal(c2, g2, stream_id)
             popped(p) ==
                 IF p.some THEN wrote(write_part(p.c, stream_id, p.part), p.cont)
                 ELSE [c |-> c, g |-> g, returned |-> FALSE]
         IN popped(pop_outg_for_stream(c, stream_id))

\* The inner loop of buffer_outg_conn for one stream id.  g is the history of
\* the pass: updated, the queued byte count seen at each pop, the bytes of the
\* last part written, the streams served, and whether pop_outg_for_stream was
\* called for an id that is not in the map (its unwrap panics and the pass ends).
RECURSIVE drain_stream(_, _, _)
drain_stream(c, g0, stream_id) ==
    IF ~has_write_buffer_capacity(c) THEN [c |-> c, g |-> g0, returned |-> TRUE]
    ELSE IF stream_id \notin DOMAIN c.streams
    THEN [c |-> c, g |-> [g0 EXCEPT !.unwrap_failed = TRUE], returned |-> TRUE]
    ELSE LET g == [g0 EXCEPT !.reached = @ \cup {stream_id}]
             wrote(c2, cont) ==
                 LET g2 == [g EXCEPT
                              !.updated = TRUE,
                              !.at_pop = Append(@, queued_bytes_len(c.queued_write)),
                              !.last_part_bytes = queued_bytes_len(c2.queued_write)
                                                  - queued_bytes_len(c.queued_write),
                              !.served = @ \cup {stream_id}]
                 IN IF ~cont THEN [c |-> c2, g |-> g2, returned |-> FALSE]
                    ELSE drain_stream(c2, g2, stream_id)
             popped(p) ==
                 IF p.some THEN wrote(write_part(p.c, stream_id, p.part), p.cont)
                 ELSE [c |-> c, g |-> g, returned |-> FALSE]
         IN popped(pop_outg_for_stream(c, stream_id))

RECURSIVE drain_streams(_, _, _)
drain_streams(c, g, ids) ==
    IF ids = <<>> THEN [c |-> c, g |-> g]
    ELSE LET drained(r) == IF r.returned THEN [c |-> r.c, g |-> r.g]
                           ELSE drain_streams(r.c, r.g, Tail(ids))
         IN drained(drain_stream(c, g, Head(ids)))

NewPass(c) ==
    [ran |-> TRUE, updated |-> FALSE, before |-> queued_bytes_len(c.queued_write),
     after |-> 0, at_pop |-> <<>>, last_part_bytes |-> 0, served |-> {}, reached |-> {},
     snapshot |-> <<>>, frozen |-> TRUE, unwrap_failed |-> FALSE]

buffer_outg_conn(c) ==
    LET snapshot(g0, ids) == drain_streams(c, [g0 EXCEPT !.snapshot = ids], ids)
        pass_from(g0) == IF ~has_write_buffer_capacity(c) THEN [c |-> c, g |-> g0]
                         ELSE snapshot(g0, writable_stream_ids(c.streams))
        returned(r) ==
            [c |-> r.c,
             g |-> [r.g EXCEPT !.after = queued_bytes_len(r.c.queued_write),
                               !.frozen = (r.c.streams = c.streams
                                           /\ r.c.out_window_size = c.out_window_size)]]
    IN returned(pass_from(NewPass(c)))

\* ----------------------------------------------------------------- Spec
MaxStreams == 2     \* Start commands per connection
MaxCmds == 3        \* commands processed per connection
MaxInbound == 1     \* inbound frames per connection

NoPass == [ran |-> FALSE, updated |-> FALSE, before |-> 0, after |-> 0, at_pop |-> <<>>,
           last_part_bytes |-> 0, served |-> {}, reached |-> {}, snapshot |-> <<>>,
           frozen |-> TRUE, unwrap_failed |-> FALSE]

ConnNew ==
    [streams |-> [id \in {} |-> 0],
     next_stream_id |-> 1,
     out_window_size |-> DefaultInitialWindowSize,
     pump_out_window_size |-> 0,
     peer_settings |-> [max_frame_size |-> DefaultMaxFrameSize,
                        initial_window_size |-> DefaultInitialWindowSize],
     queued_write |-> [frames |-> <<>>, flushed |-> 0, goaway_queued |-> FALSE,
                      refused |-> 0]]

HistNew == [enq |-> [id \in {} |-> <<>>], events |-> [id \in {} |-> <<>>],
            bypass |-> [id \in {} |-> 0], ended |-> [id \in {} |-> 0], nparts |-> 0,
            ids |-> <<>>]

CodecOff ==
    /\ buf = [current_frame_type |-> "Headers", current_frame_offset |-> 0,
              stream_id |-> 0, flags |-> 0, max_frame_size |-> 0,
              builder |-> [data |-> <<>>, position |-> 0]]
    /\ cpc = "off"
    /\ sink = <<>>
    /\ block_start = 0
    /\ ncalls = 0
    /\ dres = [done |-> FALSE]

NoFrame == [k |-> "none"]

NetOff == [on |-> FALSE]

TaskOff == [k |-> "off"]

WireOff == [k |-> "off"]

ObsOff ==
    /\ rx = NoFrame
    /\ net = NetOff
    /\ task = TaskOff
    /\ wire = WireOff

ConnOff ==
    /\ conn = ConnNew
    /\ pc = "off"
    /\ pass = NoPass
    /\ hist = HistNew
    /\ budget = [cmds |-> 0, inbound |-> 0]

Init ==
    /\ CodecOff
    /\ ObsOff
    /\ conn = ConnNew
    /\ pc = "queue"
    /\ pass = NoPass
    /\ hist = HistNew
    /\ budget = [cmds |-> MaxCmds, inbound |-> MaxInbound]

\* encoded header blocks, as the sizes of the encoder's write_all calls
SmallHeaders == <<20>>
BigHeaders == <<16000, 24000>>

StartMenu ==
    {[headers |-> SmallHeaders, body |-> -1, trailers |-> <<>>, end_stream |-> FALSE,
      handler_ok |-> TRUE],
     [headers |-> BigHeaders, body |-> 40000, trailers |-> SmallHeaders, end_stream |-> TRUE,
      handler_ok |-> TRUE],
     [headers |-> SmallHeaders, body |-> 40000, trailers |-> <<>>, end_stream |-> TRUE,
      handler_ok |-> TRUE],
     [headers |-> BigHeaders, body |-> -1, trailers |-> <<>>, end_stream |-> TRUE,
      handler_ok |-> TRUE],
     [headers |-> BigHeaders, body |-> 40000, trailers |-> BigHeaders, end_stream |-> TRUE,
      handler_ok |-> TRUE],
     [headers |-> SmallHeaders, body |-> -1, trailers |-> <<>>, end_stream |-> FALSE,
      handler_ok |-> FALSE]}

\* the part content and the id given to it, for the history
HeadersPart(id, writes) == [k |-> "Headers", headers |-> [id |-> id, writes |-> writes]]
DataPart(id, n) == [k |-> "Data", data |-> [id |-> id, from |-> 0, to |-> n]]

RECURSIVE sum(_)
sum(ws) == IF ws = <<>> THEN 0 ELSE Head(ws) + sum(Tail(ws))

\* history: the number of parts enqueued on the stream when its end was first
\* asked for, -1 before that
end_noted(h, stream_id) ==
    IF h.ended[stream_id] >= 0 THEN h
    ELSE [h EXCEPT !.ended[stream_id] = Len(h.enq[stream_id])]

part_id(content) == IF content.k = "Headers" THEN content.headers.id ELSE content.data.id
part_size(content) ==
    IF content.k = "Headers" THEN sum(content.headers.writes) ELSE bytes_len(content.data)

\* history: the parts pushed on a stream's outgoing queue, in order
noted(h, stream_id, contents) ==
    [h EXCEPT !.enq[stream_id] = @ \o [i \in 1..Len(contents) |->
                  [id |-> part_id(contents[i]), size |-> part_size(contents[i])]],
              !.nparts = @ + Len(contents)]

\* history: consecutive emitting passes that returned before reaching a stream
\* whose next part could have been popped
poppable(c, id) ==
    id \in DOMAIN c.streams /\ pop_outg(c.streams[id], c.out_window_size).cmd # NoCommand

in_seq(x, s) == \E i \in 1..Len(s) : s[i] = x

bypassed(h, r) ==
    [h EXCEPT !.bypass = [id \in DOMAIN h.bypass |->
        IF id \in r.g.served \/ id \notin DOMAIN r.c.streams THEN 0
        ELSE IF r.g.updated /\ in_seq(id, r.g.snapshot) /\ id \notin r.g.reached
                /\ poppable(r.c, id)
             THEN h.bypass[id] + 1
             ELSE h.bypass[id]]]

RECURSIVE push_all(_, _)
push_all(s, contents) ==
    IF contents = <<>> THEN s ELSE push_all(push_back(s, Head(contents)), Tail(contents))

\* the parts process_start pushes for a Start message
start_contents(m, first_id) ==
    LET hs == <<HeadersPart(first_id, m.headers)>>
        bs == IF m.body >= 0 THEN <<DataPart(first_id + 1, m.body)>> ELSE <<>>
        ts == IF m.trailers # <<>> THEN <<HeadersPart(first_id + 2, m.trailers)>> ELSE <<>>
    IN hs \o bs \o ts

\* bug variant: a Start whose handler failed does not use up its stream id
process_start_id_kept_on_failure(c, m, first_id) ==
    LET stream_id == c.next_stream_id
        s0 == new_stream(c.peer_settings.initial_window_size)
        s1 == IF ~m.handler_ok THEN close_outgoing(s0, "InternalError")
              ELSE LET pushed == push_all([s0 EXCEPT !.peer_tx = TRUE],
                                          start_contents(m, first_id))
                   IN IF m.end_stream THEN close_outgoing(pushed, "NoError") ELSE pushed
    IN [c EXCEPT !.next_stream_id = IF m.handler_ok THEN stream_id + 2 ELSE stream_id,
                 !.streams = insert_stream(c.streams, stream_id, s1)]

\* bug variant: every Start closes the outgoing side with NO_ERROR
process_start_always_ended(c, m, first_id) ==
    LET stream_id == c.next_stream_id
        s0 == new_stream(c.peer_settings.initial_window_size)
        s1 == IF ~m.handler_ok THEN close_outgoing(s0, "InternalError")
              ELSE close_outgoing(push_all([s0 EXCEPT !.peer_tx = TRUE],
                                           start_contents(m, first_id)), "NoError")
    IN [c EXCEPT !.next_stream_id = stream_id + 2,
                 !.streams = insert_stream(c.streams, stream_id, s1)]

\* bug variant: a Start whose handler failed leaves the outgoing side open
process_start_failure_unclosed(c, m, first_id) ==
    LET stream_id == c.next_stream_id
        s0 == new_stream(c.peer_settings.initial_window_size)
        s1 == IF ~m.handler_ok THEN s0
              ELSE LET pushed == push_all([s0 EXCEPT !.peer_tx = TRUE],
                                          start_contents(m, first_id))
                   IN IF m.end_stream THEN close_outgoing(pushed, "NoError") ELSE pushed
    IN [c EXCEPT !.next_stream_id = stream_id + 2,
                 !.streams = insert_stream(c.streams, stream_id, s1)]

\* Conn<ClientTypes>::process_start up to the buffering pass
process_start(c, m, first_id) ==
    LET stream_id == c.next_stream_id
        s0 == new_stream(c.peer_settings.initial_window_size)
        s1 == IF ~m.handler_ok THEN close_outgoing(s0, "InternalError")
              ELSE LET pushed == push_all([s0 EXCEPT !.peer_tx = TRUE],
                                          start_contents(m, first_id))
                   IN IF m.end_stream THEN close_outgoing(pushed, "NoError") ELSE pushed
    IN [c EXCEPT !.next_stream_id = stream_id + 2,
                 !.streams = insert_stream(c.streams, stream_id, s1)]

\* a Start message is taken from the command channel and processed
StartOf(menu) ==
    /\ pc = "queue"
    /\ budget.cmds > 0
    /\ conn.next_stream_id <= 2 * MaxStreams - 1
    /\ \E m \in menu :
       \E r \in {buffer_outg_conn(process_start(conn, m, hist.nparts + 1))} :
          LET stream_id == conn.next_stream_id
              h0 == [hist EXCEPT !.enq = insert_stream(@, stream_id, <<>>),
                                 !.events = IF m.handler_ok
                                            THEN insert_stream(@, stream_id, <<>>)
                                            ELSE @,
                                 !.bypass = insert_stream(@, stream_id, 0),
                                 !.ended = insert_stream(@, stream_id, -1),
                                 !.ids = Append(@, stream_id)]
              h1 == IF m.handler_ok
                    THEN noted(h0, stream_id, start_contents(m, hist.nparts + 1))
                    ELSE h0
              h2 == IF m.handler_ok /\ m.end_stream THEN end_noted(h1, stream_id) ELSE h1
          IN /\ conn' = r.c
             /\ pass' = r.g
             /\ hist' = bypassed(h2, r)
    /\ budget' = [budget EXCEPT !.cmds = @ - 1]
    /\ UNCHANGED <<pc, codec_vars>>

ProcessStartOf(menu) == StartOf(menu) /\ UNCHANGED obs_vars

ProcessStart == ProcessStartOf(StartMenu)

AllocatedIds == {id \in 1..(2 * MaxStreams + 1) : id % 2 = 1 /\ id < conn.next_stream_id}

EnqueueMenu(id) ==
    {[content |-> DataPart(id, 40000), last |-> FALSE],
     [content |-> DataPart(id, 0), last |-> TRUE],
     [content |-> HeadersPart(id, SmallHeaders), last |-> TRUE]}

\* bug variant: the part is put in front of the parts already waiting
process_stream_enqueue_front(c, stream_id, part) ==
    IF stream_id \in DOMAIN c.streams
    THEN [c EXCEPT !.streams[stream_id] =
             IF part.last
             THEN close_outgoing([@ EXCEPT !.outgoing = <<part.content>> \o @], "NoError")
             ELSE [@ EXCEPT !.outgoing = <<part.content>> \o @]]
    ELSE IF part.content.k = "Data"
         THEN [c EXCEPT !.pump_out_window_size = @ + bytes_len(part.content.data)]
         ELSE c

\* bug variant: a Data part's length is returned to the pump whether or not
\* the stream is in the map
process_stream_enqueue_credit_always(c, stream_id, part) ==
    LET credited == IF part.content.k = "Data"
                    THEN [c EXCEPT !.pump_out_window_size =
                                       @ + bytes_len(part.content.data)]
                    ELSE c
    IN IF stream_id \in DOMAIN c.streams
       THEN [credited EXCEPT !.streams[stream_id] = push_back_part(@, part)]
       ELSE credited

\* Conn::process_stream_enqueue
process_stream_enqueue(c, stream_id, part) ==
    IF stream_id \in DOMAIN c.streams
    THEN [c EXCEPT !.streams[stream_id] = push_back_part(@, part)]
    ELSE IF part.content.k = "Data"
         THEN [c EXCEPT !.pump_out_window_size = @ + bytes_len(part.content.data)]
         ELSE c

ProcessStreamEnqueue ==
    /\ pc = "queue"
    /\ budget.cmds > 0
    /\ \E stream_id \in AllocatedIds, part \in EnqueueMenu(hist.nparts + 1) :
          /\ conn' = process_stream_enqueue(conn, stream_id, part)
          /\ hist' = IF stream_id \notin DOMAIN conn.streams THEN hist
                     ELSE IF part.last
                     THEN end_noted(noted(hist, stream_id, <<part.content>>), stream_id)
                     ELSE noted(hist, stream_id, <<part.content>>)
    /\ budget' = [budget EXCEPT !.cmds = @ - 1]
    /\ UNCHANGED <<pc, pass, codec_vars, obs_vars>>

\* bug variant: ending a stream that is not in the map creates it, closed
process_stream_end_absent_created(c, stream_id, error_code) ==
    IF stream_id \in DOMAIN c.streams
    THEN [c EXCEPT !.streams[stream_id] = close_outgoing(@, error_code)]
    ELSE [c EXCEPT !.streams = insert_stream(@, stream_id,
              close_outgoing(new_stream(c.peer_settings.initial_window_size), error_code))]

\* Conn::process_stream_end
process_stream_end(c, stream_id, error_code) ==
    IF stream_id \in DOMAIN c.streams
    THEN [c EXCEPT !.streams[stream_id] = close_outgoing(@, error_code)]
    ELSE c

ProcessStreamEnd ==
    /\ pc = "queue"
    /\ budget.cmds > 0
    /\ \E stream_id \in AllocatedIds, error_code \in {"NoError", "Cancel"} :
          /\ conn' = process_stream_end(conn, stream_id, error_code)
          /\ hist' = IF stream_id \in DOMAIN conn.streams /\ error_code = "NoError"
                     THEN end_noted(hist, stream_id)
                     ELSE hist
    /\ budget' = [budget EXCEPT !.cmds = @ - 1]
    /\ UNCHANGED <<pc, pass, codec_vars, obs_vars>>

\* poll_write: the command channel is not ready; poll_flush starts with a pass
PollFlushFirst ==
    /\ pc = "queue"
    /\ \E r \in {buffer_outg_conn(conn)} :
          /\ conn' = r.c
          /\ pass' = r.g
          /\ hist' = bypassed(hist, r)
    /\ pc' = "poll"
    /\ UNCHANGED <<budget, codec_vars, obs_vars>>

\* QueuedWrite::poll: the transport takes all, some or none of the queued bytes
FlushLeftovers(n) == {x \in {0, WriteWatermark - 1, WriteWatermark, n} : x <= n}

\* what QueuedWrite::poll can give: Ok with left of the queued bytes still
\* unwritten, or the error of a transport that failed
PollOutcomes(n) == {[k |-> "Ok", left |-> x] : x \in FlushLeftovers(n)} \cup {[k |-> "Err"]}

\* poll_flush: queued_write.poll()?; the error of a failed transport ends
\* poll_flush and poll_write, and the task with them
QueuedWritePoll ==
    /\ pc = "poll"
    /\ \E polled \in PollOutcomes(queued_bytes_len(conn.queued_write)) :
          IF polled.k = "Err"
          THEN conn' = conn /\ pc' = "failed"
          ELSE /\ conn' = [conn EXCEPT !.queued_write.flushed =
                               frames_size(conn.queued_write.frames) - polled.left]
               /\ pc' = "buffer"
    /\ UNCHANGED <<pass, hist, budget, codec_vars, obs_vars>>

\* bug variant: the loop goes on for as long as bytes are queued
PollFlushLoopUntilEmpty ==
    /\ pc = "buffer"
    /\ \E r \in {buffer_outg_conn(conn)} :
          /\ conn' = r.c
          /\ pass' = r.g
          /\ hist' = bypassed(hist, r)
          /\ pc' = IF r.g.updated \/ queued_bytes_len(r.c.queued_write) > 0
                   THEN "poll" ELSE "queue"
    /\ UNCHANGED <<budget, codec_vars, obs_vars>>

\* poll_flush: the pass after the flush; the loop ends when it emitted nothing
PollFlushLoop ==
    /\ pc = "buffer"
    /\ \E r \in {buffer_outg_conn(conn)} :
          /\ conn' = r.c
          /\ pass' = r.g
          /\ hist' = bypassed(hist, r)
          /\ pc' = IF r.g.updated THEN "poll" ELSE "queue"
    /\ UNCHANGED <<budget, codec_vars, obs_vars>>

\* the reader half took a WINDOW_UPDATE for the connection (0) or for a stream
RecvWindowUpdate ==
    /\ pc = "queue"
    /\ budget.inbound > 0
    /\ \E id \in {0} \cup DOMAIN conn.streams :
          conn' = IF id = 0
                  THEN [conn EXCEPT !.out_window_size = @ + DefaultInitialWindowSize]
                  ELSE [conn EXCEPT !.streams[id].out_window_size =
                                        @ + DefaultInitialWindowSize]
    /\ budget' = [budget EXCEPT !.inbound = @ - 1]
    /\ UNCHANGED <<pc, pass, hist, codec_vars, obs_vars>>

\* Conn::send_frame_and_notify, as send_ack_settings calls it
SETTINGS_FRAME_TYPE == 4

SettingsAckFrame ==
    [type |-> SETTINGS_FRAME_TYPE, stream_id |-> 0, flags |-> 1,
     payload |-> [id |-> 0, from |-> 0, to |-> 0]]

send_frame_and_notify(c, frame) ==
    [c EXCEPT !.queued_write = queue_not_goaway(@, Append(@.frames, frame))]

SendAckSettings ==
    /\ pc = "queue"
    /\ budget.inbound > 0
    /\ conn' = send_frame_and_notify(conn, SettingsAckFrame)
    /\ budget' = [budget EXCEPT !.inbound = @ - 1]
    /\ UNCHANGED <<pc, pass, hist, codec_vars, obs_vars>>

Next ==
    \/ ProcessStart
    \/ ProcessStreamEnqueue
    \/ ProcessStreamEnd
    \/ PollFlushFirst
    \/ QueuedWritePoll
    \/ PollFlushLoop
    \/ RecvWindowUpdate
    \/ SendAckSettings

Spec == Init /\ [][Next]_vars

\* ---- the frames written, as the peer reads them
Written == conn.queued_write.frames

is_block_frame(f) == f.type \in {HEADERS_FRAME_TYPE, CONTINUATION_FRAME_TYPE}

is_block_open(f) == is_block_frame(f) /\ ~is_set(f.flags, FlagEndHeaders)

\* C1: after a HEADERS or CONTINUATION frame without END_HEADERS the next frame
\* written is a CONTINUATION frame of the same stream, so nothing is interleaved
\* into a headers block; a CONTINUATION frame only ever follows such a frame.
C1_NoInterleave ==
    \A i \in 1..Len(Written) :
        /\ is_block_open(Written[i]) =>
              /\ i < Len(Written)
              /\ Written[i + 1].type = CONTINUATION_FRAME_TYPE
              /\ Written[i + 1].stream_id = Written[i].stream_id
        /\ Written[i].type = CONTINUATION_FRAME_TYPE =>
              i > 1 /\ is_block_open(Written[i - 1])

C1_Witness ==
    \E i \in 1..Len(Written) :
        /\ Written[i].type = HEADERS_FRAME_TYPE
        /\ is_block_open(Written[i])
        /\ Written[i].stream_id = 3
        /\ \E j \in 1..(i - 1) : is_block_open(Written[j]) /\ Written[j].stream_id = 1
        /\ \E j \in 1..(i - 1) : Written[j].type = SETTINGS_FRAME_TYPE
        /\ \E j \in (i + 1)..Len(Written) : Written[j].type = DATA_FRAME_TYPE

\* C5 as stated: after every buffering pass at most 32768 bytes are queued.
C5_AfterPassAtMostWatermark == pass.ran => pass.after <= WriteWatermark

\* C5: the watermark is tested before each pop, so after a pass the bytes queued
\* before its last part was written are below 32768; a pass that wrote nothing
\* leaves the count as it found it.
C5_BelowWatermarkBeforeLastPart ==
    pass.ran =>
        IF pass.updated THEN pass.after - pass.last_part_bytes < WriteWatermark
        ELSE pass.after = pass.before

C5_Witness ==
    /\ pass.ran
    /\ pass.updated
    /\ Len(pass.at_pop) >= 2
    /\ pass.after > WriteWatermark

\* C6: a pass that finds more than 32768 bytes queued pops nothing: it returns
\* updated = false with the stream map, every outgoing queue and every window
\* as they were; every pop of a pass saw fewer than 32768 bytes queued.
C6_NoPopOverWatermark ==
    /\ (pass.ran /\ pass.before > WriteWatermark) =>
           /\ ~pass.updated
           /\ pass.frozen
           /\ pass.after = pass.before
           /\ pass.at_pop = <<>>
    /\ \A i \in 1..Len(pass.at_pop) : pass.at_pop[i] < WriteWatermark

C6_Witness ==
    /\ pc = "poll"
    /\ pass.ran
    /\ pass.before > WriteWatermark
    /\ ~pass.updated
    /\ \E id \in DOMAIN conn.streams : poppable(conn, id)

\* ---- the frames of one stream against the parts enqueued on it
on_stream(s) ==
    SelectSeq(Written, LAMBDA f : f.stream_id = s /\ f.type # RST_STREAM_FRAME_TYPE)

parts_on_stream(s) == SelectSeq(on_stream(s), LAMBDA f : f.payload.id # 0)

enq_pos(s, id) == CHOOSE k \in 1..Len(hist.enq[s]) : hist.enq[s][k].id = id

\* payload b is what the stream has to emit right after payload a
follows(s, a, b) ==
    \/ b.id = a.id /\ b.from = a.to
    \/ /\ b.id # a.id
       /\ b.from = 0
       /\ a.to = hist.enq[s][enq_pos(s, a.id)].size
       /\ enq_pos(s, a.id) < enq_pos(s, b.id)
       /\ \A k \in (enq_pos(s, a.id) + 1)..(enq_pos(s, b.id) - 1) : hist.enq[s][k].size = 0

in_enqueue_order(s, fs) ==
    \A i \in 1..Len(fs) :
        /\ \E k \in 1..Len(hist.enq[s]) : hist.enq[s][k].id = fs[i].payload.id
        /\ i = 1 =>
              /\ fs[i].payload.from = 0
              /\ \A k \in 1..(enq_pos(s, fs[i].payload.id) - 1) : hist.enq[s][k].size = 0
        /\ i > 1 => follows(s, fs[i - 1].payload, fs[i].payload)

\* the frame that carries END_STREAM comes after every part enqueued before the
\* end of the stream was asked for
end_after_parts(s, fs) ==
    \A i \in 1..Len(fs) :
        is_set(fs[i].flags, FlagEndStream) =>
            /\ hist.ended[s] >= 0
            /\ \A k \in 1..hist.ended[s] :
                  hist.enq[s][k].size > 0 =>
                      \E j \in 1..Len(fs) :
                          /\ fs[j].payload.id = hist.enq[s][k].id
                          /\ fs[j].payload.to = hist.enq[s][k].size
                          /\ j <= i \/ fs[j].payload.id = fs[i].payload.id

\* C7: the frames written for a stream carry its enqueued parts in enqueue
\* order, each part whole and once, and the end of the stream is written after
\* the parts enqueued before it.
C7_EnqueueOrder ==
    \A s \in DOMAIN hist.enq :
        in_enqueue_order(s, parts_on_stream(s)) /\ end_after_parts(s, on_stream(s))

C7_Witness ==
    /\ {1, 3} \subseteq DOMAIN hist.enq
    /\ Len(hist.enq[1]) = 3
    /\ \E i \in 1..Len(Written) :
          /\ Written[i].stream_id = 1
          /\ Written[i].payload.id = hist.enq[1][3].id
          /\ \E j \in 1..(i - 1) : Written[j].stream_id = 3
    /\ \E i \in 1..Len(on_stream(3)) :
          /\ on_stream(3)[i].type = DATA_FRAME_TYPE
          /\ on_stream(3)[i].payload.to < 40000
          /\ i = Len(on_stream(3))
    /\ \E i \in 1..Len(on_stream(1)) : is_set(on_stream(1)[i].flags, FlagEndStream)

\* C8: with n streams started, a stream whose next part can be popped is not
\* passed over by n consecutive emitting passes.
C8_RoundRobin ==
    \A s \in DOMAIN hist.bypass : hist.bypass[s] < Cardinality(DOMAIN hist.bypass)

\* ------------------------------------------------------------- SpecCodec
CodecStreamIds == {1, 3, 258}

\* the encoder's next write: bytes numbered by their position in the block
chunk(n) == [i \in 1..n |-> 16 + Len(sink) + i]

\* buffers a WriteBuffer can be in: some bytes appended, some of them consumed
InitBuffers ==
    {[data |-> [i \in 1..n |-> 200 + i], position |-> p] : n \in 0..MaxPrefix, p \in 0..MaxPrefix}
    \cup {[data |-> [i \in 1..LongPrefix |-> 200 + i], position |-> 1]}

CodecInit ==
    /\ \E b \in {x \in InitBuffers : x.position <= Len(x.data)} :
          buf = [current_frame_type |-> "Headers", current_frame_offset |-> 0,
                 stream_id |-> 0, flags |-> 0, max_frame_size |-> 0, builder |-> b]
    /\ cpc = "init"
    /\ sink = <<>>
    /\ block_start = 0
    /\ ncalls = 0
    /\ dres = [done |-> FALSE]
    /\ ConnOff
    /\ ObsOff

\* serialize_into up to the call of the encoder
SerializeStart ==
    /\ cpc = "init"
    /\ ~dres.done
    /\ \E flags \in {0, FlagEndStream}, stream_id \in CodecStreamIds,
          m \in 1..MaxFrame \cup {BigFrame} :
          buf' = open_frame([flags |-> flags, stream_id |-> stream_id,
                             current_frame_type |-> "Headers",
                             current_frame_offset |-> remaining(buf.builder),
                             builder |-> buf.builder, max_frame_size |-> m])
    /\ block_start' = remaining(buf.builder)
    /\ cpc' = "encoding"
    /\ UNCHANGED <<sink, ncalls, dres>>
    /\ UNCHANGED <<conn_vars, obs_vars>>

\* one EncodeBuf::write_all call made by encode_into
EncoderWriteAll ==
    /\ cpc = "encoding"
    /\ ncalls < MaxWrites
    /\ \E n \in 0..MaxChunk \cup {BigChunk} :
          /\ buf' = write_all(buf, chunk(n))
          /\ sink' = sink \o chunk(n)
    /\ ncalls' = ncalls + 1
    /\ UNCHANGED <<cpc, block_start, dres>>
    /\ UNCHANGED <<conn_vars, obs_vars>>

\* one EncodeBuf::reserve call made by encode_into: the builder makes room,
\* compacting when the unread bytes are fewer than the request
EncoderReserve ==
    /\ cpc = "encoding"
    /\ \E additional \in {1, MaxReserve} :
          buf' = [buf EXCEPT !.builder = reserve(@, additional)]
    /\ UNCHANGED <<cpc, sink, block_start, ncalls, dres>>
    /\ UNCHANGED <<conn_vars, obs_vars>>

\* encode_into returned: serialize_into closes the last frame
SerializeFinish ==
    /\ cpc = "encoding"
    /\ buf' = finish_frame(buf, TRUE)
    /\ cpc' = "done"
    /\ UNCHANGED <<sink, block_start, ncalls, dres>>
    /\ UNCHANGED <<conn_vars, obs_vars>>

\* one call of write_part_data on an empty frame queue
WritePartDataCall ==
    /\ cpc = "init"
    /\ ~dres.done
    /\ \E stream_id \in CodecStreamIds, n \in 0..MaxData, es \in BOOLEAN, m \in 1..MaxFrame :
          dres' = [done |-> TRUE, stream_id |-> stream_id, end_stream |-> es,
                   data |-> [id |-> 1, from |-> 0, to |-> n], max_frame_size |-> m,
                   frames |-> write_part_data(<<>>, stream_id,
                                 [id |-> 1, from |-> 0, to |-> n], es, m)]
    /\ UNCHANGED <<buf, cpc, sink, block_start, ncalls>>
    /\ UNCHANGED <<conn_vars, obs_vars>>

CodecNext ==
    \/ SerializeStart
    \/ EncoderWriteAll
    \/ EncoderReserve
    \/ SerializeFinish
    \/ WritePartDataCall

SpecCodec == CodecInit /\ [][CodecNext]_vars

\* the frames of the block, parsed back from the unread bytes of the buffer
BlockFrames ==
    unpack_frames(SubSeq(bytes(buf.builder), block_start + 1, remaining(buf.builder)))

RECURSIVE ConcatPayloads(_)
ConcatPayloads(fs) == IF fs = <<>> THEN <<>> ELSE Head(fs).payload \o ConcatPayloads(Tail(fs))

\* C2: one HEADERS frame then CONTINUATION frames, all on the requested stream;
\* every payload is at most max_frame_size, every frame but the last is full,
\* and a block that is a multiple of max_frame_size gets no empty last frame.
C2_Fragmentation ==
    cpc = "done" =>
        LET fs == BlockFrames IN
        /\ Len(fs) >= 1
        /\ fs[1].frame_type = HEADERS_FRAME_TYPE
        /\ \A i \in 2..Len(fs) : fs[i].frame_type = CONTINUATION_FRAME_TYPE
        /\ \A i \in 1..Len(fs) :
              /\ fs[i].stream_id = buf.stream_id
              /\ fs[i].payload_len <= buf.max_frame_size
              /\ Len(fs[i].payload) = fs[i].payload_len
              /\ i < Len(fs) => fs[i].payload_len = buf.max_frame_size
        /\ Len(fs) > 1 => fs[Len(fs)].payload_len >= 1

C2_Witness ==
    /\ cpc = "done"
    /\ Len(BlockFrames) = 3
    /\ buf.max_frame_size = 2
    /\ Len(sink) = 6
    /\ ncalls = 3

\* C3: END_HEADERS is on the last frame only, END_STREAM on the HEADERS frame
\* only (when requested), and CONTINUATION frames before the last carry no flag.
C3_Flags ==
    cpc = "done" =>
        LET fs == BlockFrames IN
        \A i \in 1..Len(fs) :
            /\ is_set(fs[i].flags, FlagEndHeaders) <=> (i = Len(fs))
            /\ is_set(fs[i].flags, FlagEndStream) <=> (i = 1 /\ buf.flags = FlagEndStream)
            /\ (i > 1 /\ i < Len(fs)) => fs[i].flags = 0
            /\ fs[i].flags \in {0, FlagEndStream, FlagEndHeaders, FlagEndStream + FlagEndHeaders}

C3_Witness ==
    /\ cpc = "done"
    /\ buf.flags = FlagEndStream
    /\ \/ Len(BlockFrames) = 1 /\ BlockFrames[1].flags = FlagEndStream + FlagEndHeaders
       \/ Len(BlockFrames) = 3 /\ BlockFrames[3].flags = FlagEndHeaders

\* C4: the payloads of the frames of a block, concatenated in order, are the
\* bytes the encoder wrote to the sink.
C4_Lossless == cpc = "done" => ConcatPayloads(BlockFrames) = sink

C4_Witness ==
    /\ cpc = "done"
    /\ Len(BlockFrames) >= 3
    /\ ncalls >= 2
    /\ Len(sink) % buf.max_frame_size # 0
    /\ buf.builder.position = 0
    /\ block_start > 0

\* C9: a non-empty data part becomes DATA frames on its stream with non-empty
\* payloads of at most max_frame_size that tile the data in order; exactly the
\* last carries END_STREAM when asked, none otherwise.
C9_DataFrames ==
    (dres.done /\ bytes_len(dres.data) > 0) =>
        LET fs == dres.frames IN
        /\ Len(fs) >= 1
        /\ fs[1].payload.from = dres.data.from
        /\ fs[Len(fs)].payload.to = dres.data.to
        /\ \A i \in 1..Len(fs) :
              /\ fs[i].type = DATA_FRAME_TYPE
              /\ fs[i].stream_id = dres.stream_id
              /\ fs[i].payload.id = dres.data.id
              /\ bytes_len(fs[i].payload) >= 1
              /\ bytes_len(fs[i].payload) <= dres.max_frame_size
              /\ i > 1 => fs[i].payload.from = fs[i - 1].payload.to
              /\ is_set(fs[i].flags, FlagEndStream) <=> (i = Len(fs) /\ dres.end_stream)

C9_Witness ==
    /\ dres.done
    /\ dres.end_stream
    /\ bytes_len(dres.data) = 7
    /\ dres.max_frame_size = 3
    /\ Len(dres.frames) = 3

\* C26: a data part of zero bytes with end_stream = Yes is queued as exactly
\* one DATA frame on its stream with an empty payload and END_STREAM; a data
\* part of zero bytes with end_stream = No queues no frame.
C26_EmptyData ==
    (dres.done /\ bytes_len(dres.data) = 0) =>
        IF dres.end_stream
        THEN /\ Len(dres.frames) = 1
             /\ dres.frames[1].type = DATA_FRAME_TYPE
             /\ dres.frames[1].stream_id = dres.stream_id
             /\ bytes_len(dres.frames[1].payload) = 0
             /\ dres.frames[1].flags = FlagEndStream
        ELSE dres.frames = <<>>

C26_Witness ==
    /\ dres.done
    /\ bytes_len(dres.data) = 0
    /\ dres.end_stream
    /\ dres.max_frame_size = 1
    /\ Len(dres.frames) = 1

\* -------------------------------------------------------------- SpecRead
\* The reader half of a client connection next to its writer half: inbound
\* frames for the streams the client started, and what their handlers are told.
MaxFrames == 3      \* inbound frames per connection

ReadStartMenu ==
    {[headers |-> SmallHeaders, body |-> -1, trailers |-> <<>>, end_stream |-> e,
      handler_ok |-> TRUE] : e \in BOOLEAN}

\* inbound header lists: the status (0: no pseudo header) and the content-length
HeadersMenu == {[status |-> 200, content_length |-> -1], [status |-> 200, content_length |-> 5],
                [status |-> 100, content_length |-> -1], [status |-> 0, content_length |-> -1]}

\* Headers::validate(Response, place)
validate(headers, place) ==
    IF place = "Initial" THEN headers.status # 0 ELSE headers.status = 0

\* the events that end a handler's stream
terminal(e) ==
    \/ e.k \in {"trailers", "rst", "error"}
    \/ e.k \in {"headers", "data_frame"} /\ e.end_stream

\* a call of the stream's handler, when it has one; w is the connection with
\* the events its handlers have been given
handler_call(w, stream_id, e) ==
    IF stream_id \in DOMAIN w.c.streams /\ w.c.streams[stream_id].peer_tx
    THEN [w EXCEPT !.ev[stream_id] = Append(@, e)]
    ELSE w

\* history: what the reader sees of a stream record
NoStream == [present |-> FALSE, in_message_stage |-> "Initial", in_rem_content_length |-> -1]

seen(streams, stream_id) ==
    IF stream_id \in DOMAIN streams
    THEN [present |-> TRUE, in_message_stage |-> streams[stream_id].in_message_stage,
          in_rem_content_length |-> streams[stream_id].in_rem_content_length]
    ELSE NoStream

\* Conn::send_rst_stream: the handler is told, the stream dropped, RST_STREAM sent
send_rst_stream(w, stream_id, error_code) ==
    [handler_call(w, stream_id, [k |-> "error", end_stream |-> TRUE]) EXCEPT
        !.gone = seen(w.c.streams, stream_id),
        !.c.streams = remove_stream(@, stream_id),
        !.c.queued_write = queue_not_goaway(@, Append(@.frames,
                                                    RstStreamFrame(stream_id, error_code)))]

\* bug variant: response headers with END_STREAM go straight to AfterTrailingHeaders
process_headers_end_stream_skips(w, stream_id, end_stream, headers) ==
    IF stream_id \notin DOMAIN w.c.streams THEN [w |-> w, stream |-> FALSE, err |-> FALSE]
    ELSE IF w.c.streams[stream_id].in_message_stage = "AfterTrailingHeaders"
    THEN [w |-> w, stream |-> FALSE, err |-> TRUE]
    ELSE LET headers_place == IF w.c.streams[stream_id].in_message_stage = "Initial"
                              THEN "Initial" ELSE "Trailing"
             status_1xx == headers_place = "Initial"
                           /\ headers.status >= 100 /\ headers.status <= 199
             event == IF headers_place = "Initial"
                      THEN [k |-> "headers", end_stream |-> end_stream]
                      ELSE [k |-> "trailers", end_stream |-> TRUE]
             staged(w1) == IF status_1xx THEN w1 ELSE handler_call(w1, stream_id, event)
         IN IF \/ ~validate(headers, headers_place)
               \/ status_1xx /\ end_stream
               \/ headers_place = "Trailing" /\ ~end_stream
            THEN [w |-> send_rst_stream(w, stream_id, "ProtocolError"),
                  stream |-> FALSE, err |-> FALSE]
            ELSE [w |-> staged([w EXCEPT
                           !.c.streams[stream_id].in_rem_content_length =
                               IF headers.content_length >= 0 THEN headers.content_length
                               ELSE @,
                           !.c.streams[stream_id].in_message_stage =
                               IF headers_place = "Trailing" THEN "AfterTrailingHeaders"
                               ELSE IF status_1xx THEN "Initial"
                               ELSE IF end_stream THEN "AfterTrailingHeaders"
                               ELSE "AfterInitialHeaders"]),
                  stream |-> TRUE, err |-> FALSE]

\* bug variant: the stage is advanced before a second HEADERS is checked for END_STREAM
process_headers_stage_before_check(w, stream_id, end_stream, headers) ==
    IF stream_id \notin DOMAIN w.c.streams THEN [w |-> w, stream |-> FALSE, err |-> FALSE]
    ELSE IF w.c.streams[stream_id].in_message_stage = "AfterTrailingHeaders"
    THEN [w |-> w, stream |-> FALSE, err |-> TRUE]
    ELSE LET headers_place == IF w.c.streams[stream_id].in_message_stage = "Initial"
                              THEN "Initial" ELSE "Trailing"
             status_1xx == headers_place = "Initial"
                           /\ headers.status >= 100 /\ headers.status <= 199
             event == IF headers_place = "Initial"
                      THEN [k |-> "headers", end_stream |-> end_stream]
                      ELSE [k |-> "trailers", end_stream |-> TRUE]
             staged(w1) == IF status_1xx THEN w1 ELSE handler_call(w1, stream_id, event)
         IN IF \/ ~validate(headers, headers_place)
               \/ status_1xx /\ end_stream
               \/ headers_place = "Trailing" /\ ~end_stream
            THEN [w |-> send_rst_stream(
                           IF headers_place = "Trailing" /\ validate(headers, headers_place)
                           THEN [w EXCEPT !.c.streams[stream_id].in_message_stage =
                                              "AfterTrailingHeaders"]
                           ELSE w,
                           stream_id, "ProtocolError"),
                  stream |-> FALSE, err |-> FALSE]
            ELSE [w |-> staged([w EXCEPT
                           !.c.streams[stream_id].in_rem_content_length =
                               IF headers.content_length >= 0 THEN headers.content_length
                               ELSE @,
                           !.c.streams[stream_id].in_message_stage =
                               IF headers_place = "Trailing" THEN "AfterTrailingHeaders"
                               ELSE IF status_1xx THEN "Initial"
                               ELSE "AfterInitialHeaders"]),
                  stream |-> TRUE, err |-> FALSE]

\* bug variant: 1xx headers count as the response headers
process_headers_1xx_counts(w, stream_id, end_stream, headers) ==
    IF stream_id \notin DOMAIN w.c.streams THEN [w |-> w, stream |-> FALSE, err |-> FALSE]
    ELSE IF w.c.streams[stream_id].in_message_stage = "AfterTrailingHeaders"
    THEN [w |-> w, stream |-> FALSE, err |-> TRUE]
    ELSE LET headers_place == IF w.c.streams[stream_id].in_message_stage = "Initial"
                              THEN "Initial" ELSE "Trailing"
             status_1xx == headers_place = "Initial"
                           /\ headers.status >= 100 /\ headers.status <= 199
             event == IF headers_place = "Initial"
                      THEN [k |-> "headers", end_stream |-> end_stream]
                      ELSE [k |-> "trailers", end_stream |-> TRUE]
             staged(w1) == IF status_1xx THEN w1 ELSE handler_call(w1, stream_id, event)
         IN IF \/ ~validate(headers, headers_place)
               \/ status_1xx /\ end_stream
               \/ headers_place = "Trailing" /\ ~end_stream
            THEN [w |-> send_rst_stream(w, stream_id, "ProtocolError"),
                  stream |-> FALSE, err |-> FALSE]
            ELSE [w |-> staged([w EXCEPT
                           !.c.streams[stream_id].in_rem_content_length =
                               IF headers.content_length >= 0 THEN headers.content_length
                               ELSE @,
                           !.c.streams[stream_id].in_message_stage =
                               IF headers_place = "Trailing" THEN "AfterTrailingHeaders"
                               ELSE IF status_1xx THEN "AfterInitialHeaders"
                               ELSE "AfterInitialHeaders"]),
                  stream |-> TRUE, err |-> FALSE]

\* Conn<ClientTypes>::process_headers; stream: the stream is handed back to the
\* caller, err: the connection fails
process_headers(w, stream_id, end_stream, headers) ==
    IF stream_id \notin DOMAIN w.c.streams THEN [w |-> w, stream |-> FALSE, err |-> FALSE]
    ELSE IF w.c.streams[stream_id].in_message_stage = "AfterTrailingHeaders"
    THEN [w |-> w, stream |-> FALSE, err |-> TRUE]
    ELSE LET headers_place == IF w.c.streams[stream_id].in_message_stage = "Initial"
                              THEN "Initial" ELSE "Trailing"
             status_1xx == headers_place = "Initial"
                           /\ headers.status >= 100 /\ headers.status <= 199
             event == IF headers_place = "Initial"
                      THEN [k |-> "headers", end_stream |-> end_stream]
                      ELSE [k |-> "trailers", end_stream |-> TRUE]
             staged(w1) == IF status_1xx THEN w1 ELSE handler_call(w1, stream_id, event)
         IN IF \/ ~validate(headers, headers_place)
               \/ status_1xx /\ end_stream
               \/ headers_place = "Trailing" /\ ~end_stream
            THEN [w |-> send_rst_stream(w, stream_id, "ProtocolError"),
                  stream |-> FALSE, err |-> FALSE]
            ELSE [w |-> staged([w EXCEPT
                           !.c.streams[stream_id].in_rem_content_length =
                               IF headers.content_length >= 0 THEN headers.content_length
                               ELSE @,
                           !.c.streams[stream_id].in_message_stage =
                               IF headers_place = "Trailing" THEN "AfterTrailingHeaders"
                               ELSE IF status_1xx THEN "Initial"
                               ELSE "AfterInitialHeaders"]),
                  stream |-> TRUE, err |-> FALSE]

\* Conn::process_data_frame: the content-length is enforced, the data delivered
process_data_frame(w, stream_id, len, end_stream) ==
    IF stream_id \notin DOMAIN w.c.streams THEN [w |-> w, stream |-> FALSE, err |-> FALSE]
    ELSE IF /\ w.c.streams[stream_id].in_rem_content_length >= 0
            /\ \/ w.c.streams[stream_id].in_rem_content_length < len
               \/ end_stream /\ w.c.streams[stream_id].in_rem_content_length # len
    THEN [w |-> send_rst_stream(w, stream_id, "ProtocolError"),
          stream |-> FALSE, err |-> FALSE]
    ELSE [w |-> handler_call(
                   [w EXCEPT !.c.streams[stream_id].in_rem_content_length =
                                 IF @ >= 0 THEN @ - len ELSE @],
                   stream_id, [k |-> "data_frame", end_stream |-> end_stream]),
          stream |-> TRUE, err |-> FALSE]

\* Conn::process_rst_stream_frame: rst to the handler, the stream removed
process_rst_stream_frame(w, stream_id) ==
    [handler_call(w, stream_id, [k |-> "rst", end_stream |-> TRUE]) EXCEPT
        !.c.streams = remove_stream(@, stream_id)]

\* Conn::process_stream_frame after the frame's own handling: END_STREAM closes
\* the remote side and a stream closed on both sides leaves the map
close_remote_remove_if_closed(w, stream_id, end_stream) ==
    IF stream_id \notin DOMAIN w.c.streams \/ ~end_stream THEN w
    ELSE IF close_remote(w.c.streams[stream_id].state) = "Closed"
    THEN [w EXCEPT !.c.streams = remove_stream(@, stream_id)]
    ELSE [w EXCEPT !.c.streams[stream_id].state = close_remote(@)]

\* HttpStreamCommon::conn_died for every stream of the connection
conn_died(w) ==
    [w EXCEPT !.ev = [id \in DOMAIN w.ev |->
                         IF id \in DOMAIN w.c.streams /\ w.c.streams[id].peer_tx
                         THEN Append(w.ev[id], [k |-> "error", end_stream |-> TRUE])
                         ELSE w.ev[id]],
              !.c.streams = [id \in {} |-> 0]]

process_stream_frame(r, stream_id, end_stream) ==
    IF r.err THEN conn_died(r.w)
    ELSE IF r.stream THEN close_remote_remove_if_closed(r.w, stream_id, end_stream)
    ELSE r.w

World == [c |-> conn, ev |-> hist.events, gone |-> NoStream]

\* one inbound frame, handled as r, then the stream frame epilogue
Inbound(r, stream_id, end_stream) ==
    /\ \E w \in {process_stream_frame(r, stream_id, end_stream)} :
          /\ conn' = w.c
          /\ hist' = [hist EXCEPT !.events = w.ev]
    /\ pc' = IF r.err THEN "dead" ELSE pc
    /\ budget' = [budget EXCEPT !.inbound = @ - 1]
    /\ UNCHANGED <<pass, codec_vars>>

Received(r, stream_id, end_stream) ==
    /\ Inbound(r, stream_id, end_stream)
    /\ UNCHANGED obs_vars

ReadStart == ProcessStartOf(ReadStartMenu)

RecvHeaders ==
    /\ pc = "queue"
    /\ budget.inbound > 0
    /\ \E stream_id \in AllocatedIds, end_stream \in BOOLEAN, headers \in HeadersMenu :
          Received(process_headers(World, stream_id, end_stream, headers),
                   stream_id, end_stream)

DataLen == 5

RecvData ==
    /\ pc = "queue"
    /\ budget.inbound > 0
    /\ \E stream_id \in AllocatedIds, end_stream \in BOOLEAN :
          Received(process_data_frame(World, stream_id, DataLen, end_stream),
                   stream_id, end_stream)

RecvRstStream ==
    /\ pc = "queue"
    /\ budget.inbound > 0
    /\ \E stream_id \in AllocatedIds :
          Received([w |-> process_rst_stream_frame(World, stream_id),
                    stream |-> FALSE, err |-> FALSE], stream_id, FALSE)

\* the transport fails
ConnDied ==
    /\ pc = "queue"
    /\ \E w \in {conn_died(World)} :
          /\ conn' = w.c
          /\ hist' = [hist EXCEPT !.events = w.ev]
    /\ pc' = "dead"
    /\ UNCHANGED <<pass, budget, codec_vars, obs_vars>>

InitRead ==
    /\ CodecOff
    /\ ObsOff
    /\ conn = ConnNew
    /\ pc = "queue"
    /\ pass = NoPass
    /\ hist = HistNew
    /\ budget = [cmds |-> MaxCmds, inbound |-> MaxFrames]

NextRead ==
    \/ ReadStart
    \/ ProcessStreamEnd
    \/ PollFlushFirst
    \/ QueuedWritePoll
    \/ PollFlushLoop
    \/ RecvHeaders
    \/ RecvData
    \/ RecvRstStream
    \/ ConnDied

SpecRead == InitRead /\ [][NextRead]_vars

\* C10: a handler is given at most one terminal event and nothing after it,
\* and once its stream has left the stream map it has been given one.
C10_ExactlyOneTerminal ==
    \A id \in DOMAIN hist.events :
        /\ \A i \in 1..Len(hist.events[id]) :
              terminal(hist.events[id][i]) => i = Len(hist.events[id])
        /\ id \notin DOMAIN conn.streams =>
              /\ hist.events[id] # <<>>
              /\ terminal(hist.events[id][Len(hist.events[id])])

\* --------------------------------------------------------------- SpecNet
\* One stream's sync queue between the reader half and the consumer, with the
\* StreamFromNetwork that returns in-window credit as the consumer takes data.
MaxPush == 4        \* items the reader pushes on the stream's queue
MaxPolls == 5       \* polls by the consumer

Ok(k, len, last) == [ok |-> TRUE, k |-> k, len |-> len, last |-> last]
Err(e) == [ok |-> FALSE, k |-> e, len |-> 0, last |-> TRUE]
NoItem == [ok |-> FALSE, k |-> "none", len |-> 0, last |-> FALSE]

\* impl ClientStreamHandler for StreamQueueSyncSender: the item each callback sends
sender_item(e) ==
    CASE e.k = "headers" -> Ok("Headers", 0, e.end_stream)
      [] e.k = "data_frame" -> Ok("Data", e.len, e.end_stream)
      [] e.k = "trailers" -> Ok("Headers", 0, TRUE)
      [] e.k = "rst" -> Err("RstStreamReceived")
      [] e.k = "error" -> Err("Other")

\* bug variant: the item overtakes the items already waiting
send_front(n, item) == [n EXCEPT !.chan = <<item>> \o @]

\* StreamQueueSyncSender::send on the unbounded channel
send(n, item) == [n EXCEPT !.chan = Append(@, item)]

\* bug variant: an error item does not end the sequence
receiver_poll_err_not_final(n) ==
    IF n.eof_received THEN [n |-> n, r |-> "None", item |-> NoItem]
    ELSE IF n.chan = <<>>
    THEN [n |-> n, r |-> IF n.open THEN "NotReady" ELSE "Closed", item |-> NoItem]
    ELSE IF ~Head(n.chan).ok
    THEN [n |-> [n EXCEPT !.chan = Tail(@)], r |-> "Err", item |-> Head(n.chan)]
    ELSE [n |-> [n EXCEPT !.chan = Tail(@), !.eof_received = Head(n.chan).last],
          r |-> "Item", item |-> Head(n.chan)]

\* bug variant: a channel closed by its senders ends the sequence
receiver_poll_eof_on_close(n) ==
    IF n.eof_received THEN [n |-> n, r |-> "None", item |-> NoItem]
    ELSE IF n.chan = <<>>
    THEN [n |-> n, r |-> IF n.open THEN "NotReady" ELSE "None", item |-> NoItem]
    ELSE IF ~Head(n.chan).ok
    THEN [n |-> [n EXCEPT !.chan = Tail(@), !.eof_received = TRUE],
          r |-> "Err", item |-> Head(n.chan)]
    ELSE [n |-> [n EXCEPT !.chan = Tail(@), !.eof_received = Head(n.chan).last],
          r |-> "Item", item |-> Head(n.chan)]

\* impl Stream for StreamQueueSyncReceiver: poll
receiver_poll(n) ==
    IF n.eof_received THEN [n |-> n, r |-> "None", item |-> NoItem]
    ELSE IF n.chan = <<>>
    THEN [n |-> n, r |-> IF n.open THEN "NotReady" ELSE "Closed", item |-> NoItem]
    ELSE IF ~Head(n.chan).ok
    THEN [n |-> [n EXCEPT !.chan = Tail(@), !.eof_received = TRUE],
          r |-> "Err", item |-> Head(n.chan)]
    ELSE [n |-> [n EXCEPT !.chan = Tail(@), !.eof_received = Head(n.chan).last],
          r |-> "Item", item |-> Head(n.chan)]

\* IncreaseInWindow::data_frame_processed
data_frame_processed(n, size) == [n EXCEPT !.in_window_size = @ - size]

\* IncreaseInWindow::increase_window: the credit grows by the increment that the
\* IncreaseInWindow command carries to the writer, which the reader's window gets
increase_window(n, inc) ==
    [n EXCEPT !.in_window_size = @ + inc, !.reader_window = @ + inc,
              !.increases = Append(@, inc)]

\* bug variant: the increase is also asked for with the credit at the edge
stream_from_network_poll_at_edge(n) ==
    LET edge == DefaultInitialWindowSize \div 2
        counted(p, n1) ==
            [p EXCEPT !.n = IF n1.in_window_size <= edge
                            THEN increase_window(n1, DefaultInitialWindowSize) ELSE n1]
        taken(p) == IF p.r = "Item" /\ p.item.k = "Data"
                    THEN counted(p, data_frame_processed(p.n, p.item.len))
                    ELSE p
    IN taken(receiver_poll(n))

\* bug variant: the increase is half the initial window
stream_from_network_poll_half_inc(n) ==
    LET edge == DefaultInitialWindowSize \div 2
        counted(p, n1) ==
            [p EXCEPT !.n = IF n1.in_window_size < edge
                            THEN increase_window(n1, edge) ELSE n1]
        taken(p) == IF p.r = "Item" /\ p.item.k = "Data"
                    THEN counted(p, data_frame_processed(p.n, p.item.len))
                    ELSE p
    IN taken(receiver_poll(n))

\* impl Stream for StreamFromNetwork: poll
stream_from_network_poll(n) ==
    LET edge == DefaultInitialWindowSize \div 2
        counted(p, n1) ==
            [p EXCEPT !.n = IF n1.in_window_size < edge
                            THEN increase_window(n1, DefaultInitialWindowSize) ELSE n1]
        taken(p) == IF p.r = "Item" /\ p.item.k = "Data"
                    THEN counted(p, data_frame_processed(p.n, p.item.len))
                    ELSE p
    IN taken(receiver_poll(n))

NoPoll == [r |-> "none", item |-> NoItem, before |-> 0, after |-> 0, nincr |-> 0]

NetNew ==
    [on |-> TRUE, chan |-> <<>>, open |-> TRUE, eof_received |-> FALSE,
     in_window_size |-> DefaultInitialWindowSize,
     reader_window |-> DefaultInitialWindowSize,
     increases |-> <<>>, pushed |-> <<>>, polled |-> <<>>, last |-> NoPoll, polls |-> 0]

\* data frame sizes the peer sends
DataSizes == {1, DefaultMaxFrameSize - 1, DefaultMaxFrameSize}

\* the callbacks the reader makes on the stream's handler
HandlerCalls ==
    {[k |-> "headers", len |-> 0, end_stream |-> e] : e \in BOOLEAN}
    \cup {[k |-> "data_frame", len |-> l, end_stream |-> e] : l \in DataSizes, e \in BOOLEAN}
    \cup {[k |-> c, len |-> 0, end_stream |-> TRUE] : c \in {"trailers", "rst", "error"}}

InitNet ==
    /\ CodecOff
    /\ ConnOff
    /\ rx = NoFrame
    /\ net = NetNew
    /\ task = TaskOff
    /\ wire = WireOff

\* the reader calls the handler; inbound DATA was taken from the stream's window
ReaderPush ==
    /\ net.on /\ net.open
    /\ Len(net.pushed) < MaxPush
    /\ \E e \in HandlerCalls :
          /\ e.len <= net.reader_window
          /\ net' = [send([net EXCEPT !.reader_window = @ - e.len], sender_item(e))
                        EXCEPT !.pushed = Append(@, sender_item(e))]
    /\ UNCHANGED <<codec_vars, conn_vars, rx, task, wire>>

\* the stream leaves the stream map and its handler is dropped
SenderDrop ==
    /\ net.on /\ net.open
    /\ net' = [net EXCEPT !.open = FALSE]
    /\ UNCHANGED <<codec_vars, conn_vars, rx, task, wire>>

\* the consumer polls the StreamFromNetwork
ConsumerPoll ==
    /\ net.on
    /\ net.polls < MaxPolls
    /\ \E p \in {stream_from_network_poll(net)} :
          net' = [p.n EXCEPT
                     !.polls = @ + 1,
                     !.polled = IF p.r = "NotReady" THEN @
                                ELSE Append(@, [r |-> p.r, item |-> p.item]),
                     !.last = [r |-> p.r, item |-> p.item, before |-> net.in_window_size,
                               after |-> p.n.in_window_size,
                               nincr |-> Len(p.n.increases) - Len(net.increases)]]
    /\ UNCHANGED <<codec_vars, conn_vars, rx, task, wire>>

NextNet ==
    \/ ReaderPush
    \/ SenderDrop
    \/ ConsumerPoll

SpecNet == InitNet /\ [][NextNet]_vars

\* ---- what the consumer was given, from the history of its polls
is_yield(x) == x.r \in {"Item", "Err"}

Yielded == SelectSeq(net.polled, is_yield)

terminal_item(item) == ~item.ok \/ item.last

terminal_result(x) == is_yield(x) /\ terminal_item(x.item)

\* the place of the first terminal item among the items pushed, their number
\* when there is none
FirstTerminal(items) ==
    IF \E i \in 1..Len(items) : terminal_item(items[i])
    THEN CHOOSE i \in 1..Len(items) :
             /\ terminal_item(items[i])
             /\ \A j \in 1..(i - 1) : ~terminal_item(items[j])
    ELSE Len(items)

\* C11: once a poll of the sync-queue receiver has yielded a terminal item (an
\* Ok item with last set, or an Err), every later poll returns end-of-sequence,
\* and nothing pushed behind the terminal item is yielded.
C11_EndAfterTerminal ==
    net.on =>
       /\ \A i, j \in 1..Len(net.polled) :
             i < j /\ terminal_result(net.polled[i]) => net.polled[j].r = "None"
       /\ Len(Yielded) <= FirstTerminal(net.pushed)

\* a terminal item was yielded, a later poll was made, and an item had been
\* pushed behind the terminal item
C11_Witness ==
    /\ net.on
    /\ \E i \in 1..Len(net.polled) : terminal_result(net.polled[i]) /\ i < Len(net.polled)
    /\ Len(net.pushed) > Len(Yielded)

\* C12: the items pushed on a stream's sync queue are yielded in the order
\* pushed, none lost, none twice, up to and including the terminal item.
C12_WireOrder ==
    net.on =>
       /\ Len(Yielded) <= Len(net.pushed)
       /\ \A i \in 1..Len(Yielded) : Yielded[i].item = net.pushed[i]
       /\ ~net.eof_received =>
             net.pushed = [i \in 1..Len(Yielded) |-> Yielded[i].item] \o net.chan

\* headers, data and a terminal item were yielded, with more than one item
\* waiting in the queue at some poll
C12_Witness ==
    /\ net.on
    /\ Len(Yielded) >= 3
    /\ Yielded[1].item.k = "Headers" /\ Yielded[2].item.k = "Data"
    /\ Yielded[1].item # Yielded[3].item
    /\ terminal_result(Yielded[Len(Yielded)])
    /\ net.chan # <<>>

RECURSIVE sum_last(_, _)
sum_last(incs, k) ==
    IF k = 0 THEN 0 ELSE incs[Len(incs)] + sum_last(SubSeq(incs, 1, Len(incs) - 1), k - 1)

\* C18: taking a Data part of n bytes lowers the credit by n and asks for a
\* window increase exactly when the lowered credit is below half the initial
\* window (initial_window_size / 2 in u32); a Headers part, and a poll that
\* yields no part, change no credit and ask for nothing.
C18_IncreaseBelowHalf ==
    net.on =>
       LET l == net.last
           lowered == l.before - l.item.len
       IN IF l.r = "Item" /\ l.item.k = "Data"
          THEN /\ l.after - sum_last(net.increases, l.nincr) = lowered
               /\ l.nincr = IF lowered < DefaultInitialWindowSize \div 2 THEN 1 ELSE 0
          ELSE l.after = l.before /\ l.nincr = 0

\* a Data part left the credit exactly at half the initial window: no increase
C18_Witness ==
    /\ net.on
    /\ net.last.r = "Item" /\ net.last.item.k = "Data"
    /\ net.last.before - net.last.item.len = DefaultInitialWindowSize \div 2
    /\ net.last.nincr = 0
    /\ \E i \in 1..Len(Yielded) : Yielded[i].item.k = "Headers"

\* C19 as stated: right after a window increase the credit equals the initial
\* window size.
C19_RestoredToInitial ==
    net.on /\ net.last.nincr > 0 => net.last.after = DefaultInitialWindowSize

\* C19: every window increase raises the credit by the initial window size, so
\* that right after it the credit is the lowered credit plus 65535: at least
\* the initial window size and less than one and a half times it.
C19_RaisedByInitial ==
    net.on /\ net.last.nincr > 0 =>
       /\ net.last.nincr = 1
       /\ net.increases[Len(net.increases)] = DefaultInitialWindowSize
       /\ net.last.after = net.last.before - net.last.item.len + DefaultInitialWindowSize
       /\ net.last.after >= DefaultInitialWindowSize
       /\ net.last.after < DefaultInitialWindowSize + DefaultInitialWindowSize \div 2

\* an increase was asked for with credit left
C19_Witness ==
    /\ net.on
    /\ net.last.nincr = 1
    /\ net.last.before - net.last.item.len > 0

\* ---- stream ids, from the history of the ids process_start took
\* C17: the stream ids the client allocates for successive Start commands are
\* 1, 3, 5, ...: each is odd and greater than every id allocated before it, so
\* none is allocated twice, also after a Start whose handler failed or whose
\* stream has left the map.
C17_OddIncreasing ==
    /\ \A i \in 1..Len(hist.ids) :
          /\ hist.ids[i] = 2 * i - 1
          /\ \A j \in 1..(i - 1) : hist.ids[j] < hist.ids[i]
    /\ conn.next_stream_id = 2 * Len(hist.ids) + 1

\* a second id was allocated after a Start whose handler failed and whose
\* stream has already been removed
C17_Witness ==
    /\ Len(hist.ids) >= 2
    /\ hist.ids[1] \notin DOMAIN hist.events
    /\ hist.ids[1] \notin DOMAIN conn.streams
    /\ hist.ids[2] \in DOMAIN conn.streams

\* ------------------------------------------------------------ SpecGoaway
\* The connection of SpecRead with a GOAWAY sent at some moment, and the
\* commands, inbound frames and buffering passes that come after it.
MaxGoawayCmds == 2  \* commands processed on a connection that sends GOAWAY

GOAWAY_FRAME_TYPE == 7

\* GoawayFrame::new(last_peer_stream_id, error_code); a client has no peer streams
GoawayFrame(last_stream_id, error_code) ==
    [type |-> GOAWAY_FRAME_TYPE, stream_id |-> 0, flags |-> 0,
     payload |-> [id |-> 0, from |-> 0, to |-> 8], error_code |-> error_code]

\* QueuedWrite::queue_goaway
queue_goaway(qw, frame) ==
    [qw EXCEPT !.frames = Append(@, frame), !.goaway_queued = TRUE]

\* bug variant: the GOAWAY is queued as any other frame
send_goaway_as_plain_frame(c, error_code) ==
    [c EXCEPT !.queued_write = queue_not_goaway(@, Append(@.frames,
                                                   GoawayFrame(0, error_code)))]

\* Conn::send_goaway
send_goaway(c, error_code) ==
    [c EXCEPT !.queued_write = queue_goaway(@, GoawayFrame(0, error_code))]

\* the connection is asked to send GOAWAY, once
SendGoaway ==
    /\ pc = "queue"
    /\ ~conn.queued_write.goaway_queued
    /\ \E error_code \in {"NoError", "ProtocolError"} :
          conn' = send_goaway(conn, error_code)
    /\ UNCHANGED <<pc, pass, hist, budget, codec_vars, obs_vars>>

\* QueuedWrite::poll: left of the queued bytes stay behind
queued_write_poll(qw, left) == [qw EXCEPT !.flushed = frames_size(qw.frames) - left]

\* QueuedWrite::queued_empty
queued_empty(qw) == queued_bytes_len(qw) = 0

\* bug variant: the loop exits as soon as a GOAWAY is queued
process_goaway_state_exit_unflushed(c, polled) ==
    IF c.queued_write.goaway_queued
    THEN IF polled.k = "Err" THEN [c |-> c, exit |-> "Err"]
         ELSE [c |-> [c EXCEPT !.queued_write = queued_write_poll(@, polled.left)],
               exit |-> "ExitEarly"]
    ELSE [c |-> c, exit |-> "Continue"]

\* Conn::process_goaway_state; polled is what queued_write.poll() gives: the
\* ? hands its error to the caller
process_goaway_state(c, polled) ==
    IF c.queued_write.goaway_queued
    THEN IF polled.k = "Err" THEN [c |-> c, exit |-> "Err"]
         ELSE [c |-> [c EXCEPT !.queued_write = queued_write_poll(@, polled.left)],
               exit |-> IF queued_empty(queued_write_poll(c.queued_write, polled.left))
                        THEN "ExitEarly" ELSE "NotReady"]
    ELSE [c |-> c, exit |-> "Continue"]

\* an iteration of the connection loop asks process_goaway_state; the task ends
\* on ExitEarly, ends with the error on Err, is polled again later on NotReady,
\* and goes on otherwise.  task keeps the queue before and after the call, what
\* the transport did and what was returned.
ProcessGoawayState ==
    /\ pc = "queue"
    /\ \E polled \in PollOutcomes(queued_bytes_len(conn.queued_write)) :
       \E r \in {process_goaway_state(conn, polled)} :
          /\ conn' = r.c
          /\ pc' = CASE r.exit = "ExitEarly" -> "exit"
                      [] r.exit = "Err" -> "failed"
                      [] OTHER -> pc
          /\ task' = [k |-> "process_goaway_state", was |-> conn.queued_write,
                      now |-> r.c.queued_write, polled |-> polled.k, exit |-> r.exit]
    /\ UNCHANGED <<pass, hist, budget, codec_vars, rx, net, wire>>

NextGoaway ==
    \/ ReadStart
    \/ ProcessStreamEnd
    \/ PollFlushFirst
    \/ QueuedWritePoll
    \/ PollFlushLoop
    \/ SendAckSettings
    \/ RecvHeaders
    \/ SendGoaway
    \/ ProcessGoawayState

InitGoaway ==
    /\ CodecOff
    /\ ObsOff
    /\ conn = ConnNew
    /\ pc = "queue"
    /\ pass = NoPass
    /\ hist = HistNew
    /\ budget = [cmds |-> MaxGoawayCmds, inbound |-> MaxInbound]

SpecGoaway == InitGoaway /\ [][NextGoaway]_vars

\* C20: once send_goaway has queued a GOAWAY frame, no frame is written to the
\* transport behind it: the GOAWAY is the last frame of the queue.
C20_GoawayLast ==
    /\ \A i \in 1..Len(Written) :
          Written[i].type = GOAWAY_FRAME_TYPE => i = Len(Written)
    /\ conn.queued_write.goaway_queued =>
          Written # <<>> /\ Written[Len(Written)].type = GOAWAY_FRAME_TYPE

\* a GOAWAY was queued behind other frames, and a buffering pass that popped a
\* part and another frame came after it
C20_Witness ==
    /\ conn.queued_write.goaway_queued
    /\ Len(Written) >= 2
    /\ conn.queued_write.refused >= 2
    /\ pass.ran /\ pass.updated /\ pass.after = pass.before /\ pass.at_pop # <<>>

\* C21: process_goaway_state returns Continue exactly when no GOAWAY is queued;
\* with a GOAWAY queued and a transport that took the write it returns
\* ExitEarly when the writer's queue is flushed to its last byte and NotReady
\* otherwise (the error of a failed transport is handed on as it is and is none
\* of the three); the loop has exited only with the GOAWAY written out.
C21_GoawayExit ==
    /\ task.k = "process_goaway_state" =>
          /\ task.exit = "Continue" <=> ~task.was.goaway_queued
          /\ task.exit = "Err" <=> task.was.goaway_queued /\ task.polled = "Err"
          /\ task.exit = "ExitEarly" <=>
                /\ task.was.goaway_queued
                /\ task.polled = "Ok"
                /\ queued_bytes_len(task.now) = 0
          /\ task.exit = "NotReady" <=>
                /\ task.was.goaway_queued
                /\ task.polled = "Ok"
                /\ queued_bytes_len(task.now) > 0
    /\ pc = "exit" =>
          /\ conn.queued_write.goaway_queued
          /\ Written[Len(Written)].type = GOAWAY_FRAME_TYPE
          /\ conn.queued_write.flushed = frames_size(Written)

\* the loop asked with a GOAWAY queued behind another frame and part of the
\* queue still unwritten, and was told to wait
C21_Witness ==
    /\ task.k = "process_goaway_state"
    /\ task.exit = "NotReady"
    /\ Len(task.now.frames) >= 2
    /\ task.now.flushed > 0

\* -------------------------------------------------------------- SpecTask
\* The client connection task from spawn_connected on: the handshake, the
\* command channel with the user's handle at its sending end, and poll_write.
MaxTaskCmds == 2    \* commands the user sends through the handle

\* what client_handshake writes: the preface, then the client's SETTINGS
HandshakeWrites == <<"PREFACE", "SETTINGS">>

TaskStartMenu == {m \in StartMenu : m.headers = SmallHeaders /\ m.handler_ok}

\* what the handle puts on the channel: wait_for_connect_with_resp_sender,
\* dump_state_with_resp_sender, start_request_with_resp_sender
TaskCommands ==
    {[k |-> "WaitForHandshake"], [k |-> "DumpState"]}
        \cup {[k |-> "Start", m |-> m] : m \in TaskStartMenu}

\* spawn_connected: the channel is made and its sender given to the handle
\* before anything is written
TaskNew ==
    [k |-> "task", stage |-> "handshake", wire |-> <<>>, ack |-> FALSE,
     chan |-> <<>>, handle |-> "held", nsent |-> 0, replies |-> <<>>,
     handed_back |-> 0, dumps |-> 0]

InitTask ==
    /\ CodecOff
    /\ rx = NoFrame
    /\ net = NetOff
    /\ conn = ConnNew
    /\ pc = "off"
    /\ pass = NoPass
    /\ hist = HistNew
    /\ budget = [cmds |-> MaxTaskCmds, inbound |-> 0]
    /\ task = TaskNew
    /\ wire = WireOff

\* client_handshake, one write at a time
ClientHandshake ==
    /\ task.k = "task"
    /\ task.stage = "handshake"
    /\ Len(task.wire) < Len(HandshakeWrites)
    /\ task' = [task EXCEPT !.wire = Append(@, HandshakeWrites[Len(@) + 1])]
    /\ UNCHANGED <<codec_vars, conn_vars, rx, net, wire>>

\* the handshake future is done: Conn::new and run, the loops start
HandshakeDone ==
    /\ task.k = "task"
    /\ task.stage = "handshake"
    /\ task.wire = HandshakeWrites
    /\ task' = [task EXCEPT !.stage = "running"]
    /\ pc' = "queue"
    /\ UNCHANGED <<conn, pass, hist, budget, codec_vars, rx, net, wire>>

\* the connection future has completed: the Conn and with it the receiving end
\* of the command channel are gone
task_ended == pc \in {"done", "failed"}

\* unbounded_send on the handle's write_tx: with the receiver gone nothing is
\* queued and the message is handed back (or dropped, for DumpState)
client_send(t, cmd, ended) ==
    IF ~ended THEN [t EXCEPT !.chan = Append(@, cmd), !.nsent = @ + 1]
    ELSE IF cmd.k = "DumpState" THEN [t EXCEPT !.nsent = @ + 1]
    ELSE [t EXCEPT !.nsent = @ + 1, !.handed_back = @ + 1]

\* the user sends a command through the handle (start_request_with_resp_sender,
\* wait_for_connect_with_resp_sender, dump_state_with_resp_sender)
ClientSend ==
    /\ task.k = "task"
    /\ task.handle = "held"
    /\ task.nsent < MaxTaskCmds
    /\ \E cmd \in TaskCommands :
          task' = client_send(task, cmd, task_ended)
    /\ UNCHANGED <<codec_vars, conn_vars, rx, net, wire>>

\* the user drops the ClientConn
DropHandle ==
    /\ task.k = "task"
    /\ task.handle = "held"
    /\ task' = [task EXCEPT !.handle = "dropped"]
    /\ UNCHANGED <<codec_vars, conn_vars, rx, net, wire>>

\* the reader half takes the peer's SETTINGS with ACK
RecvSettingsAck ==
    /\ task.k = "task"
    /\ task.stage = "running"
    /\ pc = "queue"
    /\ ~task.ack
    /\ task' = [task EXCEPT !.ack = TRUE]
    /\ UNCHANGED <<codec_vars, conn_vars, rx, net, wire>>

\* the senders of the command channel: the handle's write_tx (a clone made in
\* spawn_connected) and the to_write_tx the connection was built with, which it
\* keeps as long as it lives and clones for its streams
senders(t) == (IF t.handle = "held" THEN 1 ELSE 0) + 1

\* write_rx.poll()
write_rx_poll(t) ==
    IF t.chan # <<>> THEN "Some" ELSE IF senders(t) = 0 THEN "None" ELSE "NotReady"

\* process_write_queue: Start
TaskProcessStart ==
    /\ task.k = "task"
    /\ write_rx_poll(task) = "Some"
    /\ Head(task.chan).k = "Start"
    /\ StartOf({Head(task.chan).m})
    /\ task' = [task EXCEPT !.chan = Tail(@)]
    /\ UNCHANGED <<rx, net, wire>>

\* process_message: WaitForHandshake is answered Ok at once
process_message_wait(t) ==
    [t EXCEPT !.chan = Tail(@),
              !.replies = Append(@, [ok |-> TRUE, ack |-> t.ack, wire |-> t.wire])]

\* process_write_queue: WaitForHandshake
TaskWaitForHandshake ==
    /\ task.k = "task"
    /\ pc = "queue"
    /\ write_rx_poll(task) = "Some"
    /\ Head(task.chan).k = "WaitForHandshake"
    /\ task' = process_message_wait(task)
    /\ UNCHANGED <<codec_vars, conn_vars, rx, net, wire>>

\* process_write_queue: Common(DumpState) is answered with a snapshot of the
\* connection, which is left as it is
TaskProcessDumpState ==
    /\ task.k = "task"
    /\ pc = "queue"
    /\ write_rx_poll(task) = "Some"
    /\ Head(task.chan).k = "DumpState"
    /\ task' = [task EXCEPT !.chan = Tail(@), !.dumps = @ + 1]
    /\ UNCHANGED <<codec_vars, conn_vars, rx, net, wire>>

\* poll_write with no message waiting: Ready when the channel has closed,
\* poll_flush when it has not
TaskPollWrite ==
    /\ task.k = "task"
    /\ pc = "queue"
    /\ write_rx_poll(task) # "Some"
    /\ IF write_rx_poll(task) = "None"
       THEN pc' = "done" /\ UNCHANGED <<conn, pass, hist, budget, codec_vars, obs_vars>>
       ELSE PollFlushFirst

NextTask ==
    \/ ClientHandshake
    \/ HandshakeDone
    \/ ClientSend
    \/ DropHandle
    \/ RecvSettingsAck
    \/ TaskProcessStart
    \/ TaskWaitForHandshake
    \/ TaskProcessDumpState
    \/ TaskPollWrite
    \/ QueuedWritePoll
    \/ PollFlushLoop

SpecTask == InitTask /\ [][NextTask]_vars

\* a Start message waits at the head of the channel of a running connection
start_waiting == pc = "queue" /\ task.chan # <<>> /\ Head(task.chan).k = "Start"

\* The connection task is polled as long as it can make a step: the handshake
\* is written and completes, a waiting message is processed, poll_write and
\* poll_flush go on.
SpecTaskLive ==
    /\ SpecTask
    /\ WF_vars(ClientHandshake)
    /\ WF_vars(HandshakeDone)
    /\ WF_vars(TaskWaitForHandshake)
    /\ WF_vars(TaskProcessDumpState)
    /\ WF_vars(TaskPollWrite)
    /\ WF_vars(QueuedWritePoll)
    /\ []<>~start_waiting
    /\ []<>(pc # "buffer")

\* every frame queued so far has been written out, and no part waits on a stream
drained ==
    /\ queued_bytes_len(conn.queued_write) = 0
    /\ \A id \in DOMAIN conn.streams : conn.streams[id].outgoing = <<>>

goaway_no_error_written ==
    \E i \in 1..Len(Written) :
        /\ Written[i].type = GOAWAY_FRAME_TYPE
        /\ Written[i].error_code = "NoError"
        /\ conn.queued_write.flushed = frames_size(Written)

\* the command channel has closed: no sender is left
channel_closed == task.k = "task" /\ senders(task) = 0

\* C22: dropping the handle closes the command channel; once it has closed the
\* writer drains and then GOAWAY(NO_ERROR) is written to the transport; the
\* task ends, and with it the transport is closed, only after that.  A
\* transport that fails ends the task at once.
C22_DropLeadsToGoaway ==
    /\ (task.k = "task" /\ task.handle = "dropped") ~> (channel_closed \/ pc = "failed")
    /\ channel_closed ~> ((drained /\ goaway_no_error_written) \/ pc = "failed")
    /\ [](pc = "done" => (drained /\ goaway_no_error_written))

\* C23: every reply to WaitForHandshake is given after the preface and the
\* SETTINGS were sent and after the peer's ACK of the SETTINGS was received.
C23_ReplyAfterAck ==
    task.k = "task" =>
        \A i \in 1..Len(task.replies) :
            /\ task.replies[i].ok
            /\ task.replies[i].wire = HandshakeWrites
            /\ task.replies[i].ack

\* ------------------------------------------------------------- SpecStage
\* The reader half of a client connection, frame by frame: for the last
\* inbound HEADERS or DATA frame rx keeps the frame, the stream as it was
\* before, as the frame's handler left it, and the events and frames it caused.
StageDataLens == {2, 3, 7}

tail_from(old, new) == SubSeq(new, Len(old) + 1, Len(new))

events_of(ev, stream_id) == IF stream_id \in DOMAIN ev THEN ev[stream_id] ELSE <<>>

informational == IF rx.k = "none" THEN {} ELSE rx.informational

\* the note of a frame handled with result r
frame_noted(k, stream_id, end_stream, headers, len, r) ==
    [k |-> k, stream_id |-> stream_id, end_stream |-> end_stream, headers |-> headers,
     len |-> len,
     before |-> seen(conn.streams, stream_id),
     mid |-> IF stream_id \in DOMAIN r.w.c.streams THEN seen(r.w.c.streams, stream_id)
             ELSE r.w.gone,
     dropped |-> stream_id \in DOMAIN conn.streams /\ stream_id \notin DOMAIN r.w.c.streams,
     events |-> tail_from(events_of(hist.events, stream_id), events_of(r.w.ev, stream_id)),
     frames |-> tail_from(conn.queued_write.frames, r.w.c.queued_write.frames),
     was_informed |-> stream_id \in informational,
     informational |-> IF /\ k = "headers" /\ r.stream
                          /\ headers.status >= 100 /\ headers.status <= 199
                          /\ seen(conn.streams, stream_id).in_message_stage = "Initial"
                       THEN informational \cup {stream_id} ELSE informational]

NoHeaders == [status |-> 0, content_length |-> -1]

StageHeaders ==
    /\ pc = "queue"
    /\ budget.inbound > 0
    /\ \E stream_id \in AllocatedIds, end_stream \in BOOLEAN, headers \in HeadersMenu :
       \E r \in {process_headers(World, stream_id, end_stream, headers)} :
          /\ Inbound(r, stream_id, end_stream)
          /\ rx' = frame_noted("headers", stream_id, end_stream, headers, 0, r)
    /\ UNCHANGED <<net, task, wire>>

StageData ==
    /\ pc = "queue"
    /\ budget.inbound > 0
    /\ \E stream_id \in AllocatedIds, end_stream \in BOOLEAN, len \in StageDataLens :
       \E r \in {process_data_frame(World, stream_id, len, end_stream)} :
          /\ Inbound(r, stream_id, end_stream)
          /\ rx' = frame_noted("data", stream_id, end_stream, NoHeaders, len, r)
    /\ UNCHANGED <<net, task, wire>>

NextStage ==
    \/ ReadStart
    \/ StageHeaders
    \/ StageData

SpecStage == InitRead /\ [][NextStage]_vars

\* ---- the last inbound frame, judged from the frame and the stream before it
stage_rank(stage) ==
    CASE stage = "Initial" -> 0
      [] stage = "AfterInitialHeaders" -> 1
      [] stage = "AfterTrailingHeaders" -> 2

rx_headers == rx.k = "headers" /\ rx.before.present
                 /\ rx.before.in_message_stage # "AfterTrailingHeaders"

rx_place == IF rx.before.in_message_stage = "Initial" THEN "Initial" ELSE "Trailing"

rx_1xx == rx_place = "Initial" /\ rx.headers.status >= 100 /\ rx.headers.status <= 199

rx_rejected ==
    /\ rx_headers
    /\ \/ ~validate(rx.headers, rx_place)
       \/ rx_1xx /\ rx.end_stream
       \/ rx_place = "Trailing" /\ ~rx.end_stream

rx_accepted == rx_headers /\ ~rx_rejected

\* C13: in_message_stage of a client stream only moves forward, one step at a
\* time: the first accepted non-1xx HEADERS moves Initial to AfterInitialHeaders
\* and is delivered as headers(h, end_stream); an accepted HEADERS after that
\* carries END_STREAM, moves AfterInitialHeaders to AfterTrailingHeaders and is
\* delivered as trailers(h); no inbound frame moves the stage back or from
\* Initial to AfterTrailingHeaders.
C13_StageForward ==
    rx.k # "none" /\ rx.before.present =>
       /\ stage_rank(rx.mid.in_message_stage) - stage_rank(rx.before.in_message_stage)
             \in {0, 1}
       /\ rx.k = "data" => rx.mid.in_message_stage = rx.before.in_message_stage
       /\ rx_accepted /\ ~rx_1xx /\ rx_place = "Initial" =>
             /\ rx.mid.in_message_stage = "AfterInitialHeaders"
             /\ rx.events = <<[k |-> "headers", end_stream |-> rx.end_stream]>>
       /\ rx_accepted /\ rx_place = "Trailing" =>
             /\ rx.end_stream
             /\ rx.mid.in_message_stage = "AfterTrailingHeaders"
             /\ rx.events = <<[k |-> "trailers", end_stream |-> TRUE]>>
       /\ rx.mid.in_message_stage # rx.before.in_message_stage =>
             rx_accepted /\ ~rx_1xx

\* trailers were accepted on a stream whose handler had been given headers
C13_Witness ==
    /\ rx_accepted /\ rx_place = "Trailing"
    /\ rx.mid.in_message_stage = "AfterTrailingHeaders"
    /\ Len(hist.events[rx.stream_id]) >= 2
    /\ hist.events[rx.stream_id][1].k = "headers"

\* C14: a rejected inbound HEADERS frame on an existing stream (response
\* validation fails, a second HEADERS without END_STREAM, or 1xx with
\* END_STREAM) sends RST_STREAM(PROTOCOL_ERROR) for the stream, gives the
\* handler no headers or trailers event, and leaves the stream's
\* in_message_stage and in_rem_content_length as they were.
C14_RejectedHeaders ==
    rx.k # "none" /\ rx_rejected =>
       /\ rx.frames = <<RstStreamFrame(rx.stream_id, "ProtocolError")>>
       /\ \A i \in 1..Len(rx.events) : rx.events[i].k \notin {"headers", "trailers"}
       /\ rx.mid.present
       /\ rx.mid.in_message_stage = rx.before.in_message_stage
       /\ rx.mid.in_rem_content_length = rx.before.in_rem_content_length

\* a second HEADERS without END_STREAM was rejected on a stream that had a
\* content-length
C14_Witness ==
    /\ rx.k # "none" /\ rx_rejected
    /\ rx_place = "Trailing" /\ ~rx.end_stream
    /\ rx.before.in_rem_content_length >= 0
    /\ rx.dropped

\* C15: 1xx HEADERS without END_STREAM on a stream in stage Initial keep the
\* stage Initial and give the handler nothing, and the next non-1xx HEADERS on
\* a stream that took 1xx HEADERS are delivered as the response headers.
C15_InformationalKeepsInitial ==
    rx.k # "none" /\ rx_accepted =>
       /\ rx_1xx =>
             /\ rx.mid.in_message_stage = "Initial"
             /\ rx.events = <<>>
             /\ rx.frames = <<>>
             /\ ~rx.dropped
       /\ rx.was_informed /\ rx_place = "Initial" /\ ~rx_1xx =>
             /\ rx.events = <<[k |-> "headers", end_stream |-> rx.end_stream]>>
             /\ rx.mid.in_message_stage = "AfterInitialHeaders"
    /\ \A id \in informational \cap DOMAIN conn.streams :
          \/ conn.streams[id].in_message_stage = "Initial"
          \/ events_of(hist.events, id) # <<>>

\* response headers were accepted on a stream that had taken 1xx HEADERS
C15_Witness ==
    /\ rx.k # "none" /\ rx_accepted
    /\ rx.was_informed /\ rx_place = "Initial" /\ ~rx_1xx
    /\ hist.events[rx.stream_id] = <<[k |-> "headers", end_stream |-> rx.end_stream]>>

\* the content-length in force once an accepted HEADERS frame has been taken:
\* the one it declares, or what was left of an earlier declaration (-1: none)
rx_declared_rem ==
    IF rx.headers.content_length >= 0 THEN rx.headers.content_length
    ELSE rx.before.in_rem_content_length

\* C16: accepted HEADERS with content-length N set in_rem_content_length to N;
\* each inbound DATA frame lowers it by its length; a DATA frame that brings
\* more than what remains is answered with RST_STREAM(PROTOCOL_ERROR) and the
\* handler is given the error; and so is the frame that carries END_STREAM,
\* DATA or HEADERS, when the DATA received by then does not total N.
C16_ContentLength ==
    /\ rx.k # "none" /\ rx_accepted /\ rx.headers.content_length >= 0 =>
          rx.mid.in_rem_content_length = rx.headers.content_length
    /\ rx.k # "none" /\ rx_accepted /\ rx.headers.content_length < 0 =>
          rx.mid.in_rem_content_length = rx.before.in_rem_content_length
    /\ rx.k = "data" /\ rx.before.present /\ rx.before.in_rem_content_length >= 0 =>
          IF \/ rx.len > rx.before.in_rem_content_length
             \/ rx.end_stream /\ rx.len # rx.before.in_rem_content_length
          THEN /\ rx.frames = <<RstStreamFrame(rx.stream_id, "ProtocolError")>>
               /\ rx.events = <<[k |-> "error", end_stream |-> TRUE]>>
          ELSE /\ rx.mid.in_rem_content_length = rx.before.in_rem_content_length - rx.len
               /\ rx.events = <<[k |-> "data_frame", end_stream |-> rx.end_stream]>>
               /\ rx.frames = <<>>
    /\ rx.k # "none" /\ rx_accepted /\ rx.end_stream /\ rx_declared_rem > 0 =>
          /\ rx.frames = <<RstStreamFrame(rx.stream_id, "ProtocolError")>>
          /\ rx.events = <<[k |-> "error", end_stream |-> TRUE]>>

\* ------------------------------------------------------------- SpecFrame
\* One raw frame, given to from_raw of DataFrame, HeadersFrame or
\* RstStreamFrame; a frame that was accepted is serialized again.
MaxPayload == 6     \* longest payload of a raw frame

FlagPadded == 8
FlagPriority == 32
RST_STREAM_FRAME_LEN == 4

\* payload octets tried: zero, one, and one with the top bit set
FrameBytes == {0, 1, 129}

\* flags tried: none, END_STREAM, PADDED, PRIORITY, both, PADDED with an unknown bit
FrameFlags == {0, FlagEndStream, FlagPadded, FlagPriority, FlagPadded + FlagPriority,
               FlagPadded + 64}

Payloads == UNION {[1..n -> FrameBytes] : n \in 0..MaxPayload}

\* the length field of the header: the payload's, or 4 over a payload that is
\* shorter (0 or 1 octets) or longer (5 octets)
HeaderLens(payload) ==
    {Len(payload)}
        \cup (IF Len(payload) <= 1 \/ Len(payload) = RST_STREAM_FRAME_LEN + 1
             THEN {RST_STREAM_FRAME_LEN} ELSE {})

\* RawFrame::header and RawFrame::payload
raw_header(raw) == unpack_header(SubSeq(raw, 1, FRAME_HEADER_LEN))
raw_payload(raw) == SubSeq(raw, FRAME_HEADER_LEN + 1, Len(raw))

ParseOk(f) == [k |-> "Ok", frame |-> f]
ParseErr(e) == [k |-> "Err", e |-> e]
ParsePanic == [k |-> "Panic"]

\* parse_padded_payload: the pad length octet, the data, the padding
parse_padded_payload(payload, padded) ==
    IF ~padded THEN ParseOk([data |-> payload, pad_len |-> 0])
    ELSE IF Len(payload) = 0 THEN ParseErr("IncorrectFrameLength")
    ELSE IF payload[1] >= Len(payload) THEN ParseErr("BadPaddingLength")
    ELSE ParseOk([data |-> SubSeq(payload, 2, Len(payload) - payload[1]),
                  pad_len |-> payload[1]])

\* unpack_octets_4! to u32: the value is hi * 2^24 + lo
unpack_octets_4(octets, offset) ==
    [hi |-> octets[offset + 1],
     lo |-> octets[offset + 2] * 65536 + octets[offset + 3] * 256 + octets[offset + 4]]

\* WriteBuffer::write_u32
write_u32(v) == <<v.hi, (v.lo \div 65536) % 256, (v.lo \div 256) % 256, v.lo % 256>>

\* id &= !(1 << 31)
clear_bit_31(v) == (v.hi % 128) * 16777216 + v.lo

\* WriteBuffer::write_padding
write_padding(n) == [i \in 1..n |-> 0]

\* DataFrame::from_raw, after the header checks
data_of_payload(h, r) ==
    IF r.k = "Err" THEN r
    ELSE ParseOk([type |-> "Data", stream_id |-> h.stream_id, flags |-> h.flags,
                  data |-> r.frame.data, padding_len |-> r.frame.pad_len])

data_from_parts(h, payload) ==
    IF h.frame_type # DATA_FRAME_TYPE THEN ParseErr("InternalError")
    ELSE IF h.payload_len # Len(payload) THEN ParseErr("InternalError")
    ELSE IF h.stream_id = 0 THEN ParseErr("StreamIdMustBeNonZero")
    ELSE data_of_payload(h, parse_padded_payload(payload, is_set(h.flags, FlagPadded)))

\* DataFrame::from_raw
data_from_raw(raw) == data_from_parts(raw_header(raw), raw_payload(raw))

\* DataFrame::payload_len
data_payload_len(f) ==
    IF is_set(f.flags, FlagPadded) THEN 1 + Len(f.data) + f.padding_len ELSE Len(f.data)

\* DataFrame::serialize_into
data_serialize_into(f) ==
    pack_header(data_payload_len(f), DATA_FRAME_TYPE, f.flags, f.stream_id)
        \o (IF is_set(f.flags, FlagPadded)
            THEN <<f.padding_len>> \o f.data \o write_padding(f.padding_len)
            ELSE f.data)

\* StreamDependency::parse
stream_dependency_parse(octets) ==
    [stream_id |-> clear_bit_31(unpack_octets_4(octets, 0)),
     weight |-> octets[5],
     is_exclusive |-> octets[1] >= 128]

\* bug variant: the exclusive bit is not written
stream_dependency_serialize_no_e_bit(dep) ==
    <<(dep.stream_id \div 16777216) % 256, (dep.stream_id \div 65536) % 256,
      (dep.stream_id \div 256) % 256, dep.stream_id % 256, dep.weight>>

\* StreamDependency::serialize
stream_dependency_serialize(dep) ==
    <<IF dep.is_exclusive THEN with((dep.stream_id \div 16777216) % 256, 128)
                          ELSE (dep.stream_id \div 16777216) % 256,
      (dep.stream_id \div 65536) % 256, (dep.stream_id \div 256) % 256,
      dep.stream_id % 256, dep.weight>>

NoDependency == [none |-> TRUE]

\* HeadersFrame::from_raw, after the padding is taken off
headers_of_payload(h, r) ==
    IF r.k = "Err" THEN r
    ELSE IF ~is_set(h.flags, FlagPriority)
    THEN ParseOk([type |-> "Headers", stream_id |-> h.stream_id, flags |-> h.flags,
                  header_fragment |-> r.frame.data, stream_dep |-> NoDependency,
                  padding_len |-> r.frame.pad_len])
    ELSE IF Len(r.frame.data) < 5 THEN ParsePanic
    ELSE IF stream_dependency_parse(r.frame.data).stream_id = h.stream_id
    THEN ParseErr("StreamDependencyOnItself")
    ELSE ParseOk([type |-> "Headers", stream_id |-> h.stream_id, flags |-> h.flags,
                  header_fragment |-> SubSeq(r.frame.data, 6, Len(r.frame.data)),
                  stream_dep |-> stream_dependency_parse(r.frame.data),
                  padding_len |-> r.frame.pad_len])

headers_from_parts(h, payload) ==
    IF h.frame_type # HEADERS_FRAME_TYPE THEN ParseErr("InternalError")
    ELSE IF h.payload_len # Len(payload) THEN ParseErr("InternalError")
    ELSE IF h.stream_id = 0 THEN ParseErr("StreamIdMustBeNonZero")
    ELSE headers_of_payload(h, parse_padded_payload(payload, is_set(h.flags, FlagPadded)))

\* HeadersFrame::from_raw
headers_from_raw(raw) == headers_from_parts(raw_header(raw), raw_payload(raw))

\* HeadersFrame::payload_len
headers_payload_len(f) ==
    Len(f.header_fragment)
        + (IF is_set(f.flags, FlagPriority) THEN 5 ELSE 0)
        + (IF is_set(f.flags, FlagPadded) THEN 1 + f.padding_len ELSE 0)

\* HeadersFrame::serialize_into; the PRIORITY flag without a dependency to
\* write is a panic
headers_serialize_into(f) ==
    IF is_set(f.flags, FlagPriority) /\ "none" \in DOMAIN f.stream_dep THEN Panic
    ELSE pack_header(headers_payload_len(f), HEADERS_FRAME_TYPE, f.flags, f.stream_id)
        \o (IF is_set(f.flags, FlagPadded) THEN <<f.padding_len>> ELSE <<>>)
        \o (IF is_set(f.flags, FlagPriority)
            THEN stream_dependency_serialize(f.stream_dep) ELSE <<>>)
        \o f.header_fragment
        \o (IF is_set(f.flags, FlagPadded) THEN write_padding(f.padding_len) ELSE <<>>)

\* bug variant: stream 0 is let through
rst_stream_from_parts_zero_ok(h, payload) ==
    IF h.payload_len # RST_STREAM_FRAME_LEN THEN ParseErr("InternalError")
    ELSE IF h.frame_type # RST_STREAM_FRAME_TYPE THEN ParseErr("InternalError")
    ELSE IF Len(payload) < 4 THEN ParsePanic
    ELSE ParseOk([type |-> "RstStream", stream_id |-> h.stream_id, flags |-> h.flags,
                  error_code |-> unpack_octets_4(payload, 0)])

rst_stream_from_parts(h, payload) ==
    IF h.payload_len # RST_STREAM_FRAME_LEN THEN ParseErr("InternalError")
    ELSE IF h.frame_type # RST_STREAM_FRAME_TYPE THEN ParseErr("InternalError")
    ELSE IF h.stream_id = 0 THEN ParseErr("StreamIdMustBeNonZero")
    ELSE IF Len(payload) < 4 THEN ParsePanic
    ELSE ParseOk([type |-> "RstStream", stream_id |-> h.stream_id, flags |-> h.flags,
                  error_code |-> unpack_octets_4(payload, 0)])

\* RstStreamFrame::from_raw
rst_stream_from_raw(raw) == rst_stream_from_parts(raw_header(raw), raw_payload(raw))

\* RstStreamFrame::serialize_into
rst_stream_serialize_into(f) ==
    pack_header(RST_STREAM_FRAME_LEN, RST_STREAM_FRAME_TYPE, f.flags, f.stream_id)
        \o write_u32(f.error_code)

\* FrameIR::serialize_into of the three frames
frame_serialize_into(f) ==
    IF f.type = "Data" THEN data_serialize_into(f)
    ELSE IF f.type = "Headers" THEN headers_serialize_into(f)
    ELSE rst_stream_serialize_into(f)

InitFrame ==
    /\ CodecOff
    /\ ConnOff
    /\ rx = NoFrame
    /\ net = NetOff
    /\ task = TaskOff
    /\ \E payload \in Payloads,
          t \in {DATA_FRAME_TYPE, HEADERS_FRAME_TYPE, RST_STREAM_FRAME_TYPE},
          flags \in FrameFlags, stream_id \in {0, 1}, reserved \in {0, 128} :
       \E len \in HeaderLens(payload) :
          wire = [k |-> "raw",
                  raw |-> [pack_header(len, t, flags, stream_id) EXCEPT ![6] = @ + reserved]
                              \o payload]

DataFromRaw ==
    /\ wire.k = "raw"
    /\ wire' = [k |-> "parsed", raw |-> wire.raw, as |-> DATA_FRAME_TYPE,
                res |-> data_from_raw(wire.raw)]
    /\ UNCHANGED <<codec_vars, conn_vars, rx, net, task>>

HeadersFromRaw ==
    /\ wire.k = "raw"
    /\ wire' = [k |-> "parsed", raw |-> wire.raw, as |-> HEADERS_FRAME_TYPE,
                res |-> headers_from_raw(wire.raw)]
    /\ UNCHANGED <<codec_vars, conn_vars, rx, net, task>>

RstStreamFromRaw ==
    /\ wire.k = "raw"
    /\ wire' = [k |-> "parsed", raw |-> wire.raw, as |-> RST_STREAM_FRAME_TYPE,
                res |-> rst_stream_from_raw(wire.raw)]
    /\ UNCHANGED <<codec_vars, conn_vars, rx, net, task>>

SerializeInto ==
    /\ wire.k = "parsed"
    /\ wire.res.k = "Ok"
    /\ wire' = [k |-> "out", raw |-> wire.raw, as |-> wire.as, res |-> wire.res,
                out |-> frame_serialize_into(wire.res.frame)]
    /\ UNCHANGED <<codec_vars, conn_vars, rx, net, task>>

NextFrame == DataFromRaw \/ HeadersFromRaw \/ RstStreamFromRaw \/ SerializeInto

SpecFrame == InitFrame /\ [][NextFrame]_vars

\* read off the raw octets: the flags, the stream id, the padding
raw_padded(raw) == is_set(raw[5], FlagPadded) /\ raw[4] # RST_STREAM_FRAME_TYPE

raw_padding(raw) ==
    IF raw_padded(raw) /\ Len(raw) > FRAME_HEADER_LEN
    THEN SubSeq(raw, Len(raw) - raw[FRAME_HEADER_LEN + 1] + 1, Len(raw))
    ELSE <<>>

raw_reserved(raw) == raw[6] >= 128

raw_stream_zero(raw) == raw[6] % 128 = 0 /\ raw[7] = 0 /\ raw[8] = 0 /\ raw[9] = 0

\* C24 as stated: every accepted frame is serialized to the octets it came from.
C24_RoundTrip ==
    wire.k = "out" => wire.out = wire.raw

\* the length the header declares, and whether the payload has that length
raw_declared_len(raw) == raw_header(raw).payload_len

raw_exact_len(raw) == Len(raw) = FRAME_HEADER_LEN + raw_declared_len(raw)

\* what is left of the raw octets once the parts no parsed frame keeps are
\* taken away: the reserved bit cleared, the padding octets zeroed, and the
\* octets after the declared length cut off
raw_kept(raw) ==
    [i \in 1..(FRAME_HEADER_LEN + raw_declared_len(raw)) |->
        IF i = 6 THEN raw[6] % 128
        ELSE IF raw_padded(raw) /\ i > Len(raw) - raw[FRAME_HEADER_LEN + 1] THEN 0
        ELSE raw[i]]

\* C24: an accepted DATA, HEADERS or RST_STREAM frame whose padding octets are
\* all zero, whose reserved bit is clear and whose payload has exactly the
\* length its header declares is serialized to exactly the octets it came
\* from; this covers priority information, unknown flag bits and unknown
\* RST_STREAM error codes. Of any accepted frame, padding octets other than
\* zero are written back as zeros, a set reserved bit is written back clear,
\* octets of an RST_STREAM payload after the 4 declared ones are not written
\* back, and every other octet is written back as it came.
C24_RoundTripZeroPadding ==
    /\ (/\ wire.k = "out"
        /\ ~raw_reserved(wire.raw)
        /\ raw_exact_len(wire.raw)
        /\ \A i \in 1..Len(raw_padding(wire.raw)) : raw_padding(wire.raw)[i] = 0)
           => wire.out = wire.raw
    /\ wire.k = "out" => wire.out = raw_kept(wire.raw)

\* a padded HEADERS frame with an exclusive dependency and a pad length of
\* zero came back as it was
C24_Witness ==
    /\ wire.k = "out"
    /\ wire.as = HEADERS_FRAME_TYPE
    /\ wire.raw[5] = FlagPadded + FlagPriority
    /\ wire.res.frame.stream_dep.is_exclusive
    /\ wire.res.frame.padding_len = 0
    /\ wire.out = wire.raw

\* C25: a DATA, HEADERS or RST_STREAM frame of the right type and with a
\* consistent length whose stream id is 0 is refused with StreamIdMustBeNonZero,
\* and no accepted frame has stream id 0.
C25_StreamIdNonZero ==
    wire.k \in {"parsed", "out"} =>
        /\ (/\ wire.raw[4] = wire.as
            /\ unpack_header(wire.raw).payload_len = Len(wire.raw) - FRAME_HEADER_LEN
            /\ wire.as = RST_STREAM_FRAME_TYPE =>
                   Len(wire.raw) - FRAME_HEADER_LEN = RST_STREAM_FRAME_LEN
            /\ raw_stream_zero(wire.raw))
               => wire.res = ParseErr("StreamIdMustBeNonZero")
        /\ wire.res.k = "Ok" => wire.res.frame.stream_id # 0

\* a padded DATA frame on stream 0 whose pad length is too large was refused
\* for its stream id
C25_Witness ==
    /\ wire.k = "parsed"
    /\ wire.as = DATA_FRAME_TYPE
    /\ wire.raw[4] = DATA_FRAME_TYPE
    /\ raw_stream_zero(wire.raw)
    /\ raw_padded(wire.raw)
    /\ Len(wire.raw) = FRAME_HEADER_LEN + 2
    /\ wire.raw[FRAME_HEADER_LEN + 1] = 129
    /\ wire.res = ParseErr("StreamIdMustBeNonZero")

\* ---------------------------------------------------------------------------
\* SpecCmd: the writer's commands one at a time. task holds the last command
\* taken from the channel: the connection before it (before), the connection
\* when the command's own handling was over and no buffering pass had yet run
\* (mid), and what the handler returned (result).
\* ---------------------------------------------------------------------------

MaxLogCmds == 3      \* commands processed per connection
MaxLogInbound == 1   \* inbound frames per connection

CmdStartMenu ==
    {[headers |-> SmallHeaders, body |-> -1, trailers |-> <<>>, end_stream |-> FALSE,
      handler_ok |-> TRUE],
     [headers |-> SmallHeaders, body |-> 40000, trailers |-> <<>>, end_stream |-> TRUE,
      handler_ok |-> TRUE],
     [headers |-> BigHeaders, body |-> 40000, trailers |-> SmallHeaders, end_stream |-> FALSE,
      handler_ok |-> TRUE],
     [headers |-> SmallHeaders, body |-> -1, trailers |-> SmallHeaders, end_stream |-> TRUE,
      handler_ok |-> TRUE],
     [headers |-> SmallHeaders, body |-> 40000, trailers |-> <<>>, end_stream |-> FALSE,
      handler_ok |-> FALSE]}

\* the ids a command may name: every id handed out so far, in the map or
\* removed from it, and the next one, which no stream has had yet
CmdIds == AllocatedIds \cup {conn.next_stream_id}

InitCmd ==
    /\ CodecOff
    /\ ObsOff
    /\ conn = ConnNew
    /\ pc = "queue"
    /\ pass = NoPass
    /\ hist = HistNew
    /\ budget = [cmds |-> MaxLogCmds, inbound |-> MaxLogInbound]

\* process_common_message / process_message: the handler's result is Ok
CmdStart ==
    \E m \in CmdStartMenu :
        /\ StartOf({m})
        /\ task' = [k |-> "cmd", op |-> "Start", stream_id |-> conn.next_stream_id,
                    m |-> m, first |-> hist.nparts + 1, before |-> conn,
                    mid |-> process_start(conn, m, hist.nparts + 1), result |-> "Ok"]
        /\ UNCHANGED <<rx, net, wire>>

CmdStreamEnqueue ==
    /\ pc = "queue"
    /\ budget.cmds > 0
    /\ \E stream_id \in CmdIds, part \in EnqueueMenu(hist.nparts + 1) :
          /\ conn' = process_stream_enqueue(conn, stream_id, part)
          /\ hist' = IF stream_id \notin DOMAIN conn.streams THEN hist
                     ELSE IF part.last
                     THEN end_noted(noted(hist, stream_id, <<part.content>>), stream_id)
                     ELSE noted(hist, stream_id, <<part.content>>)
          /\ task' = [k |-> "cmd", op |-> "StreamEnqueue", stream_id |-> stream_id,
                      part |-> part, before |-> conn,
                      mid |-> process_stream_enqueue(conn, stream_id, part),
                      result |-> "Ok"]
    /\ budget' = [budget EXCEPT !.cmds = @ - 1]
    /\ UNCHANGED <<pc, pass, codec_vars, rx, net, wire>>

CmdStreamEnd ==
    /\ pc = "queue"
    /\ budget.cmds > 0
    /\ \E stream_id \in CmdIds, error_code \in {"NoError", "Cancel"} :
          /\ conn' = process_stream_end(conn, stream_id, error_code)
          /\ hist' = IF stream_id \in DOMAIN conn.streams /\ error_code = "NoError"
                     THEN end_noted(hist, stream_id)
                     ELSE hist
          /\ task' = [k |-> "cmd", op |-> "StreamEnd", stream_id |-> stream_id,
                      error_code |-> error_code, before |-> conn,
                      mid |-> process_stream_end(conn, stream_id, error_code),
                      result |-> "Ok"]
    /\ budget' = [budget EXCEPT !.cmds = @ - 1]
    /\ UNCHANGED <<pc, pass, codec_vars, rx, net, wire>>

NextCmd ==
    \/ CmdStart
    \/ CmdStreamEnqueue
    \/ CmdStreamEnd
    \/ PollFlushFirst
    \/ QueuedWritePoll
    \/ PollFlushLoop
    \/ RecvRstStream

SpecCmd == InitCmd /\ [][NextCmd]_vars

\* the frames of a sequence that carry a stream id
RECURSIVE frames_on(_, _)
frames_on(frames, stream_id) ==
    IF frames = <<>> THEN <<>>
    ELSE IF Head(frames).stream_id = stream_id
    THEN <<Head(frames)>> \o frames_on(Tail(frames), stream_id)
    ELSE frames_on(Tail(frames), stream_id)

last_start(ok) == task.k = "cmd" /\ task.op = "Start" /\ task.m.handler_ok = ok

\* C27: a Start whose handler succeeded leaves, before any buffering pass, a new
\* stream with the handler attached whose outgoing queue is exactly the headers,
\* then the body if there is one, then the trailers if there are any, and whose
\* outgoing side is closed with NO_ERROR iff end_stream is set; nothing was
\* queued for writing before the handler was attached.
C27_StartQueues ==
    last_start(TRUE) =>
        /\ task.stream_id \notin DOMAIN task.before.streams
        /\ task.stream_id \in DOMAIN task.mid.streams
        /\ task.mid.streams[task.stream_id].peer_tx
        /\ task.mid.streams[task.stream_id].outgoing =
               <<HeadersPart(task.first, task.m.headers)>>
               \o (IF task.m.body >= 0 THEN <<DataPart(task.first + 1, task.m.body)>>
                   ELSE <<>>)
               \o (IF task.m.trailers # <<>>
                   THEN <<HeadersPart(task.first + 2, task.m.trailers)>> ELSE <<>>)
        /\ (task.mid.streams[task.stream_id].outgoing_end = "NoError") = task.m.end_stream
        /\ task.mid.streams[task.stream_id].outgoing_end \in {"NoError", "None"}
        /\ task.mid.queued_write = task.before.queued_write

\* a Start with headers, a body and trailers but no end_stream was processed;
\* the pass that followed has put the first of its frames in the write queue
C27_Witness ==
    /\ last_start(TRUE)
    /\ task.m.body >= 0
    /\ task.m.trailers # <<>>
    /\ ~task.m.end_stream
    /\ Len(task.mid.streams[task.stream_id].outgoing) = 3
    /\ frames_on(Written, task.stream_id) # <<>>

\* C28: a Start whose handler failed leaves a stream whose outgoing side is
\* closed with INTERNAL_ERROR, with an empty outgoing queue and no handler; the
\* command returns Ok and the writer goes on (it ends only with a flush that
\* the transport fails); whatever is written for the stream afterwards is no
\* HEADERS, DATA or CONTINUATION frame.
C28_FailedStartCancelled ==
    last_start(FALSE) =>
        /\ task.mid.streams[task.stream_id].outgoing_end = "InternalError"
        /\ task.mid.streams[task.stream_id].outgoing = <<>>
        /\ ~task.mid.streams[task.stream_id].peer_tx
        /\ task.mid.queued_write = task.before.queued_write
        /\ task.result = "Ok"
        /\ pc \in {"queue", "poll", "buffer", "failed"}
        /\ \A i \in 1..Len(Written) :
              Written[i].stream_id = task.stream_id =>
                  Written[i].type \notin {HEADERS_FRAME_TYPE, DATA_FRAME_TYPE,
                                          CONTINUATION_FRAME_TYPE}
        /\ task.stream_id \in DOMAIN conn.streams =>
              conn.streams[task.stream_id].outgoing = <<>>

\* a Start with a body failed in its handler while an earlier request was
\* being written, and the writer has since flushed
C28_Witness ==
    /\ last_start(FALSE)
    /\ task.m.body >= 0
    /\ task.stream_id = 3
    /\ Written # <<>>
    /\ pc = "buffer"

\* C29: every RST_STREAM frame written for a stream comes after a HEADERS frame
\* written for that stream.
C29_RstAfterHeaders ==
    \A i \in 1..Len(Written) :
        Written[i].type = RST_STREAM_FRAME_TYPE =>
            \E j \in 1..(i - 1) : /\ Written[j].type = HEADERS_FRAME_TYPE
                                  /\ Written[j].stream_id = Written[i].stream_id

last_absent ==
    /\ task.k = "cmd"
    /\ task.op \in {"StreamEnqueue", "StreamEnd"}
    /\ task.stream_id \notin DOMAIN task.before.streams

\* C30: a StreamEnqueue or StreamEnd for an id that is not in the stream map
\* returns Ok, leaves the stream map and the write queue as they were (of the
\* connection only the pump's window count moves, by the length of a Data
\* part), and no frame for that id is queued by it or by the passes after it.
C30_AbsentStreamIgnored ==
    last_absent =>
        /\ task.result = "Ok"
        /\ task.mid = [task.before EXCEPT !.pump_out_window_size =
               @ + (IF task.op = "StreamEnqueue" /\ task.part.content.k = "Data"
                    THEN bytes_len(task.part.content.data) ELSE 0)]
        /\ task.stream_id \notin DOMAIN conn.streams
        /\ frames_on(Written, task.stream_id)
               = frames_on(task.before.queued_write.frames, task.stream_id)

\* a stream that had frames written was removed, a StreamEnd then named it, and
\* a pass has run since
C30_Witness ==
    /\ last_absent
    /\ task.op = "StreamEnd"
    /\ task.stream_id < task.before.next_stream_id
    /\ frames_on(Written, task.stream_id) # <<>>
    /\ pc = "poll"

last_enqueue == task.k = "cmd" /\ task.op = "StreamEnqueue"

\* C31: a StreamEnqueue with a Data part of n bytes for an id that is not in the
\* stream map adds exactly n to pump_out_window_size and changes nothing else;
\* with a Headers part for such an id nothing changes at all; for an id in the
\* map pump_out_window_size stays as it was and only that stream changes.
C31_PumpCredit ==
    last_enqueue =>
        IF task.stream_id \notin DOMAIN task.before.streams
        THEN IF task.part.content.k = "Data"
             THEN task.mid = [task.before EXCEPT !.pump_out_window_size =
                                  @ + (task.part.content.data.to
                                       - task.part.content.data.from)]
             ELSE task.mid = task.before
        ELSE /\ task.mid.pump_out_window_size = task.before.pump_out_window_size
             /\ task.mid = [task.before EXCEPT !.streams[task.stream_id] =
                                task.mid.streams[task.stream_id]]
             /\ task.mid.streams[task.stream_id] # task.before.streams[task.stream_id]

\* a second 40000-byte Data part arrived for a stream that had been removed:
\* the pump's count went from 40000 to 80000
C31_Witness ==
    /\ last_enqueue
    /\ task.stream_id \notin DOMAIN task.before.streams
    /\ task.stream_id < task.before.next_stream_id
    /\ task.part.content.k = "Data"
    /\ task.before.pump_out_window_size = 40000
    /\ task.mid.pump_out_window_size = 80000
    /\ conn.pump_out_window_size = 80000

\* ---------------------------------------------------------------------------
\* SpecBuf: one WriteBuffer under extend_from_slice, extend_from_iter, reserve
\* and Buf::advance.  wire holds the buffer, every byte appended so far and the
\* number of bytes consumed (history), and the last operation.
\* ---------------------------------------------------------------------------

MaxAppended == 7     \* bytes appended to the buffer in all
MaxSlice == 3        \* largest slice appended or capacity reserved at once

\* WriteBuffer::extend_from_iter
extend_from_iter(b, s) == [compact(b) EXCEPT !.data = @ \o s]

\* Buf::advance: the assertion fails when cnt exceeds what remains
advance(b, cnt) ==
    IF cnt <= remaining(b) THEN [k |-> "Ok", b |-> [b EXCEPT !.position = @ + cnt]]
    ELSE [k |-> "Panic", b |-> b]

\* the next n bytes to append, numbered by their place in the whole sequence
next_slice(n) == [i \in 1..n |-> Len(wire.appended) + i]

InitBuf ==
    /\ CodecOff
    /\ ConnOff
    /\ rx = NoFrame
    /\ net = NetOff
    /\ task = TaskOff
    /\ wire = [k |-> "buf", b |-> [data |-> <<>>, position |-> 0], appended |-> <<>>,
               consumed |-> 0, op |-> "new", arg |-> 0, was |-> 0, panicked |-> FALSE]

BufStep(op, arg, b2, app, cons, panicked) ==
    /\ wire' = [k |-> "buf", b |-> b2, appended |-> wire.appended \o app,
                consumed |-> wire.consumed + cons, op |-> op, arg |-> arg,
                was |-> remaining(wire.b), panicked |-> panicked]
    /\ UNCHANGED <<codec_vars, conn_vars, rx, net, task>>

BufLive == wire.k = "buf" /\ ~wire.panicked

BufExtendFromSlice ==
    /\ BufLive
    /\ \E n \in 0..MaxSlice :
          /\ Len(wire.appended) + n <= MaxAppended
          /\ BufStep("extend_from_slice", n, extend_from_slice(wire.b, next_slice(n)),
                     next_slice(n), 0, FALSE)

BufExtendFromIter ==
    /\ BufLive
    /\ \E n \in 0..MaxSlice :
          /\ Len(wire.appended) + n <= MaxAppended
          /\ BufStep("extend_from_iter", n, extend_from_iter(wire.b, next_slice(n)),
                     next_slice(n), 0, FALSE)

BufReserve ==
    /\ BufLive
    /\ \E n \in 0..MaxSlice :
          BufStep("reserve", n, reserve(wire.b, n), <<>>, 0, FALSE)

BufAdvance ==
    /\ BufLive
    /\ \E cnt \in 0..(remaining(wire.b) + 1) :
       \E r \in {advance(wire.b, cnt)} :
          BufStep("advance", cnt, r.b, <<>>, IF r.k = "Ok" THEN cnt ELSE 0, r.k = "Panic")

NextBuf == BufExtendFromSlice \/ BufExtendFromIter \/ BufReserve \/ BufAdvance

SpecBuf == InitBuf /\ [][NextBuf]_vars

\* C34: position never exceeds the length of data; what remains is what was
\* appended less what was consumed; the unread bytes are the appended bytes
\* without the consumed prefix; an advance is refused by the assertion exactly
\* when its count exceeds what remained.
C34_Fifo ==
    wire.k = "buf" =>
        /\ wire.b.position <= Len(wire.b.data)
        /\ remaining(wire.b) = Len(wire.appended) - wire.consumed
        /\ bytes(wire.b) = SubSeq(wire.appended, wire.consumed + 1, Len(wire.appended))
        /\ wire.panicked = (wire.op = "advance" /\ wire.arg > wire.was)
        /\ wire.op = "reserve" => remaining(wire.b) = wire.was

\* bytes were consumed, a reserve then compacted the buffer, and an append
\* followed: the unread bytes are still the 3rd to the last appended
C34_Witness ==
    /\ wire.k = "buf"
    /\ wire.op = "extend_from_slice"
    /\ wire.consumed = 2
    /\ wire.b.position = 0
    /\ Len(wire.appended) = MaxAppended
    /\ bytes(wire.b) = SubSeq(wire.appended, 3, MaxAppended)

\* one step of SpecCodec seen from the unread bytes u before it and v after it
headers_block_step(u, v) ==
    /\ cpc' = "encoding" =>
          /\ buf'.current_frame_offset >= block_start'
          /\ buf'.current_frame_offset + FRAME_HEADER_LEN <= Len(v)
          /\ SubSeq(v, buf'.current_frame_offset + 1,
                    buf'.current_frame_offset + FRAME_HEADER_LEN) = pack_header(0, 0, 0, 0)
    /\ (cpc = "init" /\ cpc' = "encoding") =>
          /\ block_start' = Len(u)
          /\ SubSeq(v, 1, Len(u)) = u
    /\ cpc = "encoding" =>
          /\ block_start' = block_start
          /\ SubSeq(v, 1, block_start) = SubSeq(u, 1, block_start)
    /\ (cpc = "encoding" /\ cpc' = "done") =>
          /\ Len(v) = Len(u)
          /\ \A i \in 1..Len(u) :
                (i <= buf.current_frame_offset
                 \/ i > buf.current_frame_offset + FRAME_HEADER_LEN) => v[i] = u[i]
          /\ SubSeq(v, buf.current_frame_offset + 1,
                    buf.current_frame_offset + FRAME_HEADER_LEN)
             = pack_header(Len(u) - buf.current_frame_offset - FRAME_HEADER_LEN,
                           frame_type(buf.current_frame_type),
                           make_flags(buf.current_frame_type, buf.flags, TRUE),
                           buf.stream_id)

\* C33: while a headers block is serialized the recorded offset of the open
\* frame, counted from the unread start of the buffer, points at that frame's
\* 9 placeholder octets after every append, compacting or not; the last
\* back-patch writes length, type, flags and stream id into those 9 octets,
\* leaves the number of unread bytes as it was and changes no other byte; the
\* unread bytes that were in the buffer before the block are never changed.
C33_OffsetAndPatch ==
    [][headers_block_step(bytes(buf.builder), bytes(buf'.builder))]_vars

\* the buffer held LongPrefix bytes, the first of them consumed; the header
\* placeholder was appended in place, the first write_all compacted the buffer
\* in the middle of the frame, and the frame was patched where it began
C33_Witness ==
    /\ cpc = "done"
    /\ block_start = LongPrefix - 1
    /\ buf.builder.position = 0
    /\ bytes(buf.builder)[1] = 202
    /\ Len(sink) = BigChunk
    /\ unpack_header(SubSeq(bytes(buf.builder), block_start + 1,
                            block_start + FRAME_HEADER_LEN)).payload_len = BigChunk

\* ---------------------------------------------------------------------------
\* SpecWire: the write buffer of a connection at byte level.  Header blocks,
\* DATA frames and a GOAWAY are serialized into one WriteBuffer while the
\* transport takes bytes from its front.  wire holds the buffer, the bytes the
\* transport took (sent), the number of blocks the HPACK encoder has encoded
\* and every byte it produced, in order (history).
\* ---------------------------------------------------------------------------

MaxWireFrames == 4   \* frames queued per connection
WireBlockLens == {1, 3}
WireMaxFrameSize == 2
WireFlushCounts == {10}

\* what the encoder writes for a block of len bytes when it has encoded n
\* blocks before: the bytes depend on the encoder's state
encoder_output(n, len) == [i \in 1..len |-> 16 * (n + 1) + i]

\* HeadersMultiFrame::serialize_into on the connection's WriteBuffer
serialize_into_buffer(b, stream_id, flags, max_frame_size, block) ==
    IF is_set(flags, FlagEndHeaders) THEN Panic
    ELSE finish_frame(write_all(open_frame([flags |-> flags, stream_id |-> stream_id,
                                            current_frame_type |-> "Headers",
                                            current_frame_offset |-> remaining(b),
                                            builder |-> b,
                                            max_frame_size |-> max_frame_size]),
                                block), TRUE).builder

\* bug variant: the block is encoded although the frame is refused
queue_headers_encoded_when_refused(w, stream_id, flags, len) ==
    IF w.goaway_queued
    THEN [w EXCEPT !.refused = @ + 1,
                   !.encoder = @ + 1,
                   !.encoded = @ \o encoder_output(w.encoder, len)]
    ELSE [w EXCEPT !.b = serialize_into_buffer(@, stream_id, flags, WireMaxFrameSize,
                                               encoder_output(w.encoder, len)),
                   !.encoder = @ + 1,
                   !.encoded = @ \o encoder_output(w.encoder, len)]

\* Conn::write_part_headers: queue_not_goaway of a HeadersMultiFrame, which
\* runs the encoder inside serialize_into
queue_headers(w, stream_id, flags, len) ==
    IF w.goaway_queued THEN [w EXCEPT !.refused = @ + 1]
    ELSE [w EXCEPT !.b = serialize_into_buffer(@, stream_id, flags, WireMaxFrameSize,
                                               encoder_output(w.encoder, len)),
                   !.encoder = @ + 1,
                   !.encoded = @ \o encoder_output(w.encoder, len)]

\* queue_not_goaway of a DataFrame: header, then the data
queue_data(w, stream_id, n) ==
    IF w.goaway_queued THEN [w EXCEPT !.refused = @ + 1]
    ELSE [w EXCEPT !.b = extend_from_slice(
                             extend_from_slice(@, pack_header(n, DATA_FRAME_TYPE, 0, stream_id)),
                             write_padding(n))]

\* queue_goaway: last stream id and error code, 8 octets
queue_goaway_bytes(w) ==
    [w EXCEPT !.b = extend_from_slice(
                        extend_from_slice(@, pack_header(8, GOAWAY_FRAME_TYPE, 0, 0)),
                        write_padding(8)),
              !.goaway_queued = TRUE]

\* QueuedWrite::poll: the transport took cnt bytes
flushed_bytes(w, cnt) ==
    [w EXCEPT !.b = advance(@, cnt).b,
              !.sent = @ \o SubSeq(bytes(w.b), 1, cnt)]

InitWire ==
    /\ CodecOff
    /\ ConnOff
    /\ rx = NoFrame
    /\ net = NetOff
    /\ task = TaskOff
    /\ wire = [k |-> "wire", b |-> [data |-> <<>>, position |-> 0], sent |-> <<>>,
               encoder |-> 0, encoded |-> <<>>, goaway_queued |-> FALSE, refused |-> 0,
               queued |-> 0]

WireStep(w) ==
    /\ wire' = w
    /\ UNCHANGED <<codec_vars, conn_vars, rx, net, task>>

WireCanQueue == wire.k = "wire" /\ wire.queued < MaxWireFrames

WireQueueHeaders ==
    /\ WireCanQueue
    /\ \E stream_id \in {1, 3}, len \in WireBlockLens :
          WireStep([queue_headers(wire, stream_id, FlagEndStream, len)
                       EXCEPT !.queued = @ + 1])

WireQueueData ==
    /\ WireCanQueue
    /\ \E n \in {2} :
          WireStep([queue_data(wire, 1, n) EXCEPT !.queued = @ + 1])

WireQueueGoaway ==
    /\ WireCanQueue
    /\ ~wire.goaway_queued
    /\ WireStep([queue_goaway_bytes(wire) EXCEPT !.queued = @ + 1])

WireFlush ==
    /\ wire.k = "wire"
    /\ \E cnt \in WireFlushCounts \cup {remaining(wire.b)} :
          /\ cnt >= 1
          /\ cnt <= remaining(wire.b)
          /\ WireStep(flushed_bytes(wire, cnt))

NextWire == WireQueueHeaders \/ WireQueueData \/ WireQueueGoaway \/ WireFlush

SpecWire == InitWire /\ [][NextWire]_vars

\* the payload octets of the HEADERS and CONTINUATION frames, in wire order
RECURSIVE block_octets(_)
block_octets(frames) ==
    IF frames = <<>> THEN <<>>
    ELSE (IF Head(frames).frame_type \in {HEADERS_FRAME_TYPE, CONTINUATION_FRAME_TYPE}
          THEN Head(frames).payload ELSE <<>>) \o block_octets(Tail(frames))

RECURSIVE blocks_ended(_)
blocks_ended(frames) ==
    IF frames = <<>> THEN 0
    ELSE (IF /\ Head(frames).frame_type \in {HEADERS_FRAME_TYPE, CONTINUATION_FRAME_TYPE}
             /\ is_set(Head(frames).flags, FlagEndHeaders)
          THEN 1 ELSE 0) + blocks_ended(Tail(frames))

on_the_wire == unpack_frames(wire.sent \o bytes(wire.b))

\* C32: the header block octets on the wire, those already taken by the
\* transport followed by those still in the write buffer, are exactly what the
\* HPACK encoder produced, in the order it produced them, and as many blocks
\* end on the wire as were encoded.
C32_BlocksInOrder ==
    wire.k = "wire" =>
        /\ block_octets(on_the_wire) = wire.encoded
        /\ blocks_ended(on_the_wire) = wire.encoder

\* two blocks were encoded with bytes taken by the transport in between, the
\* buffer was compacted, a GOAWAY was queued and a frame was refused after it
C32_Witness ==
    /\ wire.k = "wire"
    /\ wire.encoder = 2
    /\ wire.goaway_queued
    /\ wire.refused = 1
    /\ wire.sent # <<>>
    /\ Len(wire.sent) = 10
    /\ wire.b.position = 0
    /\ remaining(wire.b) > 0

\* ids of the last pass's snapshot that have left the stream map since
snapshot_removed == {i \in 1..Len(pass.snapshot) : pass.snapshot[i] \notin DOMAIN conn.streams}

\* C35: no buffering pass calls pop_outg_for_stream for a stream id that is not
\* in the stream map at that moment.
C35_PopOnPresent ==
    pass.ran => ~pass.unwrap_failed

\* a pass whose snapshot held two streams removed the first with the pop that
\* emitted its RST_STREAM and went on to serve the second
C35_Witness ==
    /\ pass.ran
    /\ Len(pass.snapshot) = 2
    /\ 1 \in snapshot_removed
    /\ pass.snapshot[1] \in pass.served
    /\ pass.snapshot[2] \in pass.served
    /\ ~pass.unwrap_failed

\* ---------------------------------------------------------------------------
\* SpecFlushLive: the writer of Spec with fewer commands, and with the
\* scheduling of poll_flush: the loop is straight-line code of one task, so
\* the flush and the pass that follows it are always taken.  The pass is
\* enabled exactly when pc = "buffer" and always leaves it, so weak fairness
\* of the pass is stated as: pc differs from "buffer" again and again.
\* ---------------------------------------------------------------------------

MaxFlushCmds == 2    \* commands processed per connection

InitFlush ==
    /\ CodecOff
    /\ ObsOff
    /\ conn = ConnNew
    /\ pc = "queue"
    /\ pass = NoPass
    /\ hist = HistNew
    /\ budget = [cmds |-> MaxFlushCmds, inbound |-> MaxInbound]

SpecFlushLive ==
    /\ InitFlush
    /\ [][Next]_vars
    /\ WF_vars(QueuedWritePoll)
    /\ []<>(pc # "buffer")

\* nothing is left for a pass to emit: the watermark is reached or no writable
\* stream yields a part
nothing_to_emit ==
    \/ queued_bytes_len(conn.queued_write) >= WriteWatermark
    \/ \A id \in DOMAIN conn.streams :
          is_writable(conn.streams[id]) => ~poppable(conn, id)

\* poll_flush returns Ok
poll_flush_returns == pc = "buffer" /\ pc' = "queue"

\* C36: poll_flush, once entered, returns, with Ok or at once with the error of
\* a flush that failed; when it returns Ok its last pass emitted nothing, and
\* the queued byte count is at or above the watermark or no writable stream has
\* a part that can be popped.
C36_PollFlushTerminates ==
    /\ (pc \in {"poll", "buffer"}) ~> (pc \in {"queue", "failed"})
    /\ [][poll_flush_returns => (~pass'.updated /\ nothing_to_emit')]_vars

\* poll_flush returned after at least two emitting passes with bytes still
\* queued below the watermark and a stream waiting for window
C36_Witness ==
    /\ pc = "queue"
    /\ pass.ran
    /\ ~pass.updated
    /\ pass.before > 0
    /\ pass.before < WriteWatermark
    /\ \E id \in DOMAIN conn.streams : conn.streams[id].outgoing # <<>>
    /\ Len(Written) >= 6

\* C37: a poll returns end-of-sequence only after a poll has yielded a terminal
\* item (Ok with last set, or Err); a poll that finds the channel closed by its
\* senders returns the "unexpected EOF" InternalError ("Closed"), which happens
\* only when the senders are gone and no terminal item was ever pushed.
C37_NoSilentEnd ==
    net.on =>
        \A j \in 1..Len(net.polled) :
            /\ net.polled[j].r = "None" =>
                  \E i \in 1..(j - 1) : terminal_result(net.polled[i])
            /\ net.polled[j].r = "Closed" =>
                  /\ ~net.open
                  /\ \A i \in 1..Len(net.pushed) : ~terminal_item(net.pushed[i])
                  /\ \A i \in 1..(j - 1) : ~terminal_result(net.polled[i])

\* the senders were dropped after two items, neither terminal; the consumer
\* was given both and then the error, twice
C37_Witness ==
    /\ net.on
    /\ ~net.open
    /\ Len(net.pushed) = 2
    /\ Len(net.polled) = 4
    /\ net.polled[1].r = "Item"
    /\ net.polled[2].r = "Item"
    /\ net.polled[3].r = "Closed"
    /\ net.polled[4].r = "Closed"

\* C38: HeadersFrame::from_raw gives Ok or a ParseFrameError for every raw
\* frame, and a frame whose dependency is its own stream id is refused with
\* StreamDependencyOnItself.
C38_HeadersAlwaysAValue ==
    (wire.k \in {"parsed", "out"} /\ wire.as = HEADERS_FRAME_TYPE) =>
        /\ wire.res.k \in {"Ok", "Err"}
        /\ (/\ wire.res.k = "Ok"
            /\ is_set(wire.raw[5], FlagPriority)) =>
               wire.res.frame.stream_dep.stream_id # wire.res.frame.stream_id

\* ---------------------------------------------------------------------------
\* SpecLegacy: the write loop of the older client (client_conn.rs) with the
\* body pumps it spawns and the reader that shares the stream map.  task holds
\* the stream map, the to_write channel, what each pump has still to send and
\* whether an expect("stream not found") was hit.
\* ---------------------------------------------------------------------------

MaxLegacyRequests == 2   \* start_request calls per connection
MaxLegacyChunks == 2     \* body chunks per request
MaxLegacyInbound == 2    \* frames the reader handles per connection

LegacyNew ==
    [k |-> "legacy", streams |-> [id \in {} |-> 0], next_stream_id |-> 1, chan |-> <<>>,
     pumps |-> [id \in {} |-> 0], requests |-> 0, inbound |-> 0, written |-> <<>>,
     panicked |-> FALSE]

\* ClientInner::insert_stream: the new stream has its headers queued; an id
\* already in the map is a panic after the old stream was replaced
legacy_insert_stream(t) ==
    LET inserted == insert_stream(t.streams, t.next_stream_id,
                        [outgoing |-> <<"Headers">>, outgoing_end |-> FALSE,
                         closed_local |-> FALSE, closed_remote |-> FALSE])
    IN IF t.next_stream_id \in DOMAIN t.streams
       THEN [t EXCEPT !.streams = inserted, !.panicked = TRUE]
       ELSE [t EXCEPT !.streams = inserted, !.next_stream_id = @ + 2]

\* WriteLoopData::send_outg_stream: what the stream has queued is written; a
\* stream closed on both sides leaves the map
legacy_send_outg_stream(t, stream_id) ==
    LET s == t.streams[stream_id]
        ended == s.outgoing_end
        out == [i \in 1..Len(s.outgoing) |-> [stream_id |-> stream_id, part |-> s.outgoing[i]]]
              \o (IF ended /\ ~s.closed_local
                  THEN <<[stream_id |-> stream_id, part |-> "EndStream"]>> ELSE <<>>)
    IN [t EXCEPT !.written = @ \o out,
                 !.streams = IF ended /\ s.closed_remote
                             THEN remove_stream(@, stream_id)
                             ELSE [@ EXCEPT ![stream_id] =
                                      [s EXCEPT !.outgoing = <<>>,
                                                !.closed_local = ended]]]

\* ClientWriteLoop::process_start: the stream is inserted and the pump spawned
legacy_process_start(t, start) ==
    IF legacy_insert_stream(t).panicked THEN legacy_insert_stream(t)
    ELSE legacy_send_outg_stream(
             [legacy_insert_stream(t) EXCEPT
                 !.pumps = insert_stream(@, t.next_stream_id, start.chunks)],
             t.next_stream_id)

\* ClientWriteLoop::process_body_chunk
legacy_process_body_chunk(t, stream_id) ==
    IF stream_id \notin DOMAIN t.streams THEN [t EXCEPT !.panicked = TRUE]
    ELSE legacy_send_outg_stream(
             [t EXCEPT !.streams[stream_id].outgoing = Append(@, "Data")], stream_id)

\* ClientWriteLoop::process_end
legacy_process_end(t, stream_id) ==
    IF stream_id \notin DOMAIN t.streams THEN [t EXCEPT !.panicked = TRUE]
    ELSE legacy_send_outg_stream(
             [t EXCEPT !.streams[stream_id].outgoing_end = TRUE], stream_id)

\* WriteLoopData::process_common: the reader asks for a stream to be flushed,
\* if it is still there, or for octets of its own to be written
legacy_process_common(t, common) ==
    CASE common.k = "TryFlushStream" ->
            IF common.stream_id \in DOMAIN t.streams
            THEN legacy_send_outg_stream(t, common.stream_id)
            ELSE t
      [] common.k = "Write" ->
            [t EXCEPT !.written = Append(@, [stream_id |-> 0, part |-> "Raw"])]

\* ClientWriteLoop::process_message
legacy_process_message(t, message) ==
    CASE message.m = "Start" -> legacy_process_start(t, message)
      [] message.m = "BodyChunk" -> legacy_process_body_chunk(t, message.stream_id)
      [] message.m = "End" -> legacy_process_end(t, message.stream_id)
      [] message.m = "Common" -> legacy_process_common(t, message.common)

InitLegacy ==
    /\ CodecOff
    /\ ConnOff
    /\ rx = NoFrame
    /\ net = NetOff
    /\ wire = WireOff
    /\ task = LegacyNew

LegacyStep(t) ==
    /\ task' = t
    /\ UNCHANGED <<codec_vars, conn_vars, rx, net, wire>>

LegacyLive == task.k = "legacy" /\ ~task.panicked

\* ClientConnection::start_request: a Start message goes to the write loop
LegacyStartRequest ==
    /\ LegacyLive
    /\ task.requests < MaxLegacyRequests
    /\ \E n \in 0..MaxLegacyChunks :
          LegacyStep([task EXCEPT !.chan = Append(@, [m |-> "Start", chunks |-> n]),
                                  !.requests = @ + 1])

\* the write loop takes the next message
LegacyProcessMessage ==
    /\ LegacyLive
    /\ task.chan # <<>>
    /\ LegacyStep(legacy_process_message([task EXCEPT !.chan = Tail(@)], Head(task.chan)))

\* a body pump sends its next chunk, or End after the last
LegacyPump ==
    /\ LegacyLive
    /\ \E id \in DOMAIN task.pumps :
          /\ task.pumps[id] >= 0
          /\ LegacyStep([task EXCEPT
                !.chan = Append(@, IF task.pumps[id] > 0
                                   THEN [m |-> "BodyChunk", stream_id |-> id]
                                   ELSE [m |-> "End", stream_id |-> id]),
                !.pumps[id] = @ - 1])

\* LoopInner::send_common: the reader puts a message of its own on the write
\* loop's channel, behind what the application and the pumps have sent
LegacyReaderSendCommon ==
    /\ LegacyLive
    /\ task.inbound < MaxLegacyInbound
    /\ \E common \in {[k |-> "Write"]}
                     \cup {[k |-> "TryFlushStream", stream_id |-> id] :
                              id \in DOMAIN task.streams} :
          LegacyStep([task EXCEPT !.chan = Append(@, [m |-> "Common", common |-> common]),
                                  !.inbound = @ + 1])

\* the reader takes RST_STREAM for a stream: the stream leaves the map
LegacyReaderRst ==
    /\ LegacyLive
    /\ task.inbound < MaxLegacyInbound
    /\ \E id \in DOMAIN task.streams :
          LegacyStep([task EXCEPT !.streams = remove_stream(@, id), !.inbound = @ + 1])

\* the reader takes END_STREAM of the response: the remote side is closed and
\* a stream closed on both sides leaves the map
LegacyReaderEndStream ==
    /\ LegacyLive
    /\ task.inbound < MaxLegacyInbound
    /\ \E id \in DOMAIN task.streams :
          /\ ~task.streams[id].closed_remote
          /\ LegacyStep([task EXCEPT
                !.streams = IF task.streams[id].closed_local
                            THEN remove_stream(@, id)
                            ELSE [@ EXCEPT ![id].closed_remote = TRUE],
                !.inbound = @ + 1])

NextLegacy ==
    \/ LegacyStartRequest
    \/ LegacyProcessMessage
    \/ LegacyPump
    \/ LegacyReaderSendCommon
    \/ LegacyReaderRst
    \/ LegacyReaderEndStream

SpecLegacy == InitLegacy /\ [][NextLegacy]_vars

\* C39: every BodyChunk and End message the legacy write loop processes finds
\* its stream in the stream map.
C39_StreamFound ==
    task.k = "legacy" => ~task.panicked

====
